---- MODULE Spec2Model ----
(***************************************************************************)
(* State-machine model of the GeekMagic display coordinator                *)
(* (custom_components/geekmagic/coordinator.py): options migration, screen *)
(* set-up, manual screen navigation, options updates and the periodic      *)
(* poll-render-upload cycle.                                               *)
(*                                                                         *)
(* Python dictionaries are modelled as functions whose DOMAIN is the set   *)
(* of keys present; lists are sequences (index i of the code is i + 1).    *)
(***************************************************************************)
EXTENDS Integers, Sequences, FiniteSets, TLC

VARIABLES
    options,             \* self.options (migrated options dictionary)
    layouts,             \* self._layouts
    current_screen,      \* self._current_screen
    last_screen_change,  \* self._last_screen_change
    last_image,          \* self._last_image
    update_interval,     \* self.update_interval (seconds)
    now,                 \* the wall clock read by time.time()
    pc,                  \* position of the poll coroutine: "idle" or "uploading"
    inflight,            \* the image handed to device.upload_and_display
    uploads,             \* upload_and_display calls made by the current cycle
    result,              \* outcome of the last finished poll cycle
    refresh_requested,   \* an async_request_refresh() call is pending
    built,               \* number of _setup_screens runs (identity of layout objects)
    event,               \* the operation that produced this state; arg is its
                         \* argument (set_screen: the index asked for; poll: the
                         \* time since the last screen change; update_options:
                         \* the screen count before the call)
    raw_options,         \* the options argument last given to __init__ / update_options
    camera,              \* the preview camera entity: its _last_image, whether it
                         \* was added to hass, and what async_camera_image returned
    notif,               \* the notification state of the coordinator and what the
                         \* last display render drew
    hass,                \* hass.data[DOMAIN], the service registry and the value
                         \* the last entry operation returned
    manual_at,           \* time of the last successful manual screen change since
                         \* the last options update (-1: none)
    call                 \* a function application under study: arguments and result

\* The coordinator's own state
coordinator_vars ==
    <<options, layouts, current_screen, last_screen_change, last_image,
      update_interval, now, pc, inflight, uploads, result,
      refresh_requested, built, raw_options>>

\* The state around the coordinator
aux_vars == <<camera, notif, hass, manual_at, call>>

vars == <<options, layouts, current_screen, last_screen_change, last_image,
          update_interval, now, pc, inflight, uploads, result,
          refresh_requested, built, event, raw_options,
          camera, notif, hass, manual_at, call>>

-----------------------------------------------------------------------------
(* Bounds of the model *)

MaxTime == 3
MaxBuilds == 1

-----------------------------------------------------------------------------
(* const.py *)

DEFAULT_REFRESH_INTERVAL == 10
DEFAULT_SCREEN_CYCLE_INTERVAL == 0

CONF_REFRESH_INTERVAL == "refresh_interval"
CONF_LAYOUT == "layout"
CONF_WIDGETS == "widgets"
CONF_SCREENS == "screens"
CONF_SCREEN_CYCLE_INTERVAL == "screen_cycle_interval"

LAYOUT_GRID_2X2 == "grid_2x2"
LAYOUT_GRID_2X3 == "grid_2x3"
LAYOUT_HERO == "hero"
LAYOUT_SPLIT == "split"

\* dict.get(key, default)
Get(d, k, default) == IF k \in DOMAIN d THEN d[k] ELSE default

\* The dictionary d restricted to the keys K (used to build inputs)
Restrict(d, K) == [k \in K |-> d[k]]

\* LAYOUT_CLASSES.get(layout_type, Grid2x2)
LAYOUT_CLASSES(layout_type) ==
    CASE layout_type = LAYOUT_GRID_2X2 -> "Grid2x2"
      [] layout_type = LAYOUT_GRID_2X3 -> "Grid2x3"
      [] layout_type = LAYOUT_HERO -> "HeroLayout"
      [] layout_type = LAYOUT_SPLIT -> "SplitLayout"
      [] OTHER -> "Grid2x2"

WIDGET_CLASSES ==
    {"clock", "entity", "media", "chart", "text", "gauge", "progress",
     "multi_progress", "status", "status_list", "weather"}

\* Layout.get_slot_count() of each layout class
get_slot_count(cls) ==
    CASE cls = "Grid2x2" -> 4
      [] cls = "Grid2x3" -> 6
      [] cls = "HeroLayout" -> 4
      [] cls = "SplitLayout" -> 2

DefaultClock == [type |-> "clock", slot |-> 0]

NoWidget == [widget_type |-> "None"]
NoImage == [kind |-> "None"]
NoResult == [kind |-> "None"]
UpdateFailed == [kind |-> "UpdateFailed"]

-----------------------------------------------------------------------------
(* Pure functions of the coordinator *)

\* Variant of _migrate_options: the old screen_cycle_interval is carried over
_migrate_options_keep_cycle(opts) ==
    IF CONF_SCREENS \in DOMAIN opts
    THEN opts
    ELSE [refresh_interval |->
              Get(opts, CONF_REFRESH_INTERVAL, DEFAULT_REFRESH_INTERVAL),
          screen_cycle_interval |->
              Get(opts, CONF_SCREEN_CYCLE_INTERVAL, DEFAULT_SCREEN_CYCLE_INTERVAL),
          screens |->
              << [name |-> "Screen 1",
                  layout |-> Get(opts, CONF_LAYOUT, LAYOUT_GRID_2X2),
                  widgets |-> Get(opts, CONF_WIDGETS, <<DefaultClock>>)] >>]

\* Variant of _migrate_options: the early return for the new format is missing
_migrate_options_always(opts) ==
    [refresh_interval |->
         Get(opts, CONF_REFRESH_INTERVAL, DEFAULT_REFRESH_INTERVAL),
     screen_cycle_interval |-> DEFAULT_SCREEN_CYCLE_INTERVAL,
     screens |->
         << [name |-> "Screen 1",
             layout |-> Get(opts, CONF_LAYOUT, LAYOUT_GRID_2X2),
             widgets |-> Get(opts, CONF_WIDGETS, <<DefaultClock>>)] >>]

\* GeekMagicCoordinator._migrate_options
_migrate_options(opts) ==
    IF CONF_SCREENS \in DOMAIN opts
    THEN opts
    ELSE [refresh_interval |->
              Get(opts, CONF_REFRESH_INTERVAL, DEFAULT_REFRESH_INTERVAL),
          screen_cycle_interval |-> DEFAULT_SCREEN_CYCLE_INTERVAL,
          screens |->
              << [name |-> "Screen 1",
                  layout |-> Get(opts, CONF_LAYOUT, LAYOUT_GRID_2X2),
                  widgets |-> Get(opts, CONF_WIDGETS, <<DefaultClock>>)] >>]

\* Variant of Layout.set_widget: the index is not tested against 0, and a
\* negative index counts from the end of the list
set_widget_no_lower(slots, index, widget) ==
    IF index < Len(slots) /\ -index <= Len(slots)
    THEN [slots EXCEPT ![IF index < 0 THEN Len(slots) + index + 1
                         ELSE index + 1] = widget]
    ELSE slots

\* Layout.set_widget(index, widget): ignored unless 0 <= index < len(slots)
set_widget(slots, index, widget) ==
    IF 0 <= index /\ index < Len(slots)
    THEN [slots EXCEPT ![index + 1] = widget]
    ELSE slots

\* The loop over widgets_config in _create_layout
RECURSIVE PlaceWidgets(_, _)
PlaceWidgets(slots, widgets_config) ==
    IF widgets_config = <<>>
    THEN slots
    ELSE LET widget_config == Head(widgets_config)
             widget_type == Get(widget_config, "type", "text")
             slot == Get(widget_config, "slot", 0)
         IN  IF slot >= Len(slots) \/ widget_type \notin WIDGET_CLASSES
             THEN PlaceWidgets(slots, Tail(widgets_config))
             ELSE PlaceWidgets(
                      set_widget(slots, slot,
                                 [widget_type |-> widget_type, slot |-> slot]),
                      Tail(widgets_config))

\* GeekMagicCoordinator._create_layout; b identifies the set-up run that
\* allocated the layout object
_create_layout(screen_config, b) ==
    LET cls == LAYOUT_CLASSES(Get(screen_config, CONF_LAYOUT, LAYOUT_GRID_2X2))
        configured == Get(screen_config, CONF_WIDGETS, <<>>)
        widgets_config == IF configured = <<>> THEN <<DefaultClock>> ELSE configured
    IN  [cls |-> cls,
         slots |-> PlaceWidgets([i \in 1..get_slot_count(cls) |-> NoWidget],
                                widgets_config),
         built |-> b]

\* Variant of _setup_screens: the screen index always restarts at 0
_setup_screens_restart(opts, old_layouts, cur, b) ==
    LET screens == Get(opts, CONF_SCREENS, <<>>)
    IN  [layouts |-> [i \in 1..Len(screens) |-> _create_layout(screens[i], b)],
         current_screen |-> 0]

\* Variant of _setup_screens: the screen index is kept as it is
_setup_screens_keep_index(opts, old_layouts, cur, b) ==
    LET screens == Get(opts, CONF_SCREENS, <<>>)
    IN  [layouts |-> [i \in 1..Len(screens) |-> _create_layout(screens[i], b)],
         current_screen |-> cur]

\* Variant of _setup_screens: self._layouts is not emptied first
_setup_screens_append(opts, old_layouts, cur, b) ==
    LET screens == Get(opts, CONF_SCREENS, <<>>)
        new_layouts == old_layouts \o
                       [i \in 1..Len(screens) |-> _create_layout(screens[i], b)]
    IN  [layouts |-> new_layouts,
         current_screen |-> IF cur >= Len(new_layouts) THEN 0 ELSE cur]

\* GeekMagicCoordinator._setup_screens: the new (_layouts, _current_screen).
\* old_layouts is the list held before the call (it is discarded).
_setup_screens(opts, old_layouts, cur, b) ==
    LET screens == Get(opts, CONF_SCREENS, <<>>)
        new_layouts == [i \in 1..Len(screens) |-> _create_layout(screens[i], b)]
    IN  [layouts |-> new_layouts,
         current_screen |-> IF cur >= Len(new_layouts) THEN 0 ELSE cur]

\* GeekMagicCoordinator.screen_count
screen_count == Len(layouts)

\* Variant of the default screen name: the index is not made 1-based
DefaultScreenName_zero_based(index) == "Screen " \o ToString(index)

\* f"Screen {index + 1}"
DefaultScreenName(index) == "Screen " \o ToString(index + 1)

\* GeekMagicCoordinator.current_screen_name
current_screen_name(opts, cur) ==
    LET screens == Get(opts, CONF_SCREENS, <<>>)
    IN  IF 0 <= cur /\ cur < Len(screens)
        THEN Get(screens[cur + 1], "name", DefaultScreenName(cur))
        ELSE "Unknown"

\* Variant of the range test: the lower bound is missing
ValidScreenIndex_no_lower(screen_index, n) == screen_index < n

\* The range test of async_set_screen
ValidScreenIndex(screen_index, n) == 0 <= screen_index /\ screen_index < n

\* Variant of next_screen: no wrap-around
NextScreen_no_wrap(cur, n) == cur + 1

\* next_screen computed by async_next_screen
NextScreen(cur, n) == (cur + 1) % n

\* Variant of prev_screen: stops at screen 0
PrevScreen_clamped(cur, n) == IF cur = 0 THEN 0 ELSE cur - 1

\* prev_screen computed by async_previous_screen
PrevScreen(cur, n) == (cur - 1) % n

\* Variant of the auto-cycling block: the last screen is not left
AutoCycle_no_wrap(opts, n, cur, last, t) ==
    LET cycle_interval ==
            Get(opts, CONF_SCREEN_CYCLE_INTERVAL, DEFAULT_SCREEN_CYCLE_INTERVAL)
    IN  IF cycle_interval > 0 /\ n > 1 /\ t - last >= cycle_interval
        THEN [current_screen |-> IF cur + 1 < n THEN cur + 1 ELSE cur,
              last_screen_change |-> t]
        ELSE [current_screen |-> cur, last_screen_change |-> last]

\* Variant of the auto-cycling block: skips ahead by the intervals elapsed
AutoCycle_catch_up(opts, n, cur, last, t) ==
    LET cycle_interval ==
            Get(opts, CONF_SCREEN_CYCLE_INTERVAL, DEFAULT_SCREEN_CYCLE_INTERVAL)
    IN  IF cycle_interval > 0 /\ n > 1 /\ t - last >= cycle_interval
        THEN [current_screen |-> (cur + ((t - last) \div cycle_interval)) % n,
              last_screen_change |-> t]
        ELSE [current_screen |-> cur, last_screen_change |-> last]

\* Variant of the auto-cycling block: interval 0 is not treated as "manual only"
AutoCycle_zero_cycles(opts, n, cur, last, t) ==
    LET cycle_interval ==
            Get(opts, CONF_SCREEN_CYCLE_INTERVAL, DEFAULT_SCREEN_CYCLE_INTERVAL)
    IN  IF cycle_interval >= 0 /\ n > 1 /\ t - last >= cycle_interval
        THEN [current_screen |-> (cur + 1) % n, last_screen_change |-> t]
        ELSE [current_screen |-> cur, last_screen_change |-> last]

\* The auto-cycling block of _async_update_data run at time t:
\* the new (_current_screen, _last_screen_change)
AutoCycle(opts, n, cur, last, t) ==
    LET cycle_interval ==
            Get(opts, CONF_SCREEN_CYCLE_INTERVAL, DEFAULT_SCREEN_CYCLE_INTERVAL)
    IN  IF cycle_interval > 0 /\ n > 1 /\ t - last >= cycle_interval
        THEN [current_screen |-> (cur + 1) % n, last_screen_change |-> t]
        ELSE [current_screen |-> cur, last_screen_change |-> last]

\* The canvas drawn by _async_update_data: the current screen's layout when
\* the index is valid, otherwise the empty canvas
Render(lays, cur) ==
    IF lays # <<>> /\ 0 <= cur /\ cur < Len(lays)
    THEN [kind |-> "image", screen |-> cur, built |-> lays[cur + 1].built,
          cls |-> lays[cur + 1].cls]
    ELSE [kind |-> "image", screen |-> -1, built |-> -1, cls |-> "blank"]

-----------------------------------------------------------------------------
(* Inputs *)

SDash  == [name |-> "Dashboard", layout |-> LAYOUT_GRID_2X2,
           widgets |-> <<DefaultClock>>]
SMedia == [name |-> "Media", layout |-> LAYOUT_SPLIT,
           widgets |-> <<DefaultClock, [type |-> "text", slot |-> 2]>>]
SPlain == [layout |-> LAYOUT_HERO, widgets |-> <<>>]

OldEmpty == Restrict(SDash, {})
OldSingle == [refresh_interval |-> 15, layout |-> LAYOUT_GRID_2X2,
              widgets |-> <<DefaultClock>>]

\* Options handed to the constructor and to update_options
OptionInputs ==
    { OldEmpty,
      [refresh_interval |-> 10, screen_cycle_interval |-> 2,
       screens |-> <<SDash, SMedia>>],
      [refresh_interval |-> 10, screen_cycle_interval |-> 0,
       screens |-> <<SDash, SMedia, SPlain>>],
      [screen_cycle_interval |-> 1, screens |-> <<SDash, SMedia, SPlain>>],
      [refresh_interval |-> 15, screens |-> <<>>],
      [refresh_interval |-> 10, screen_cycle_interval |-> 2,
       screens |-> <<SPlain>>] }

\* Indices handed to async_set_screen
ScreenIndexInputs == {-1, 0, 1, 2, 3}

\* Places of _async_update_data's try block where an exception can be raised
\* before the upload is awaited
RenderFailurePoints == {"create_canvas", "render", "to_png", "to_jpeg"}

-----------------------------------------------------------------------------
(* Construction *)

\* GeekMagicCoordinator.__init__(hass, device, opts) at time 0
Construct(opts) ==
    LET migrated == _migrate_options(opts)
        setup == _setup_screens(migrated, <<>>, 0, 0)
    IN  /\ raw_options = opts
        /\ options = migrated
        /\ layouts = setup.layouts
        /\ current_screen = setup.current_screen
        /\ last_screen_change = 0
        /\ last_image = NoImage
        /\ update_interval =
               Get(migrated, CONF_REFRESH_INTERVAL, DEFAULT_REFRESH_INTERVAL)
        /\ now = 0
        /\ pc = "idle"
        /\ inflight = NoImage
        /\ uploads = 0
        /\ result = NoResult
        /\ refresh_requested = FALSE
        /\ built = 0
        /\ event = [op |-> "init", arg |-> 0]

\* self._notification_data = None
NoNotification == [kind |-> "None"]

\* The preview image before any render; the camera's placeholder PNG
Placeholder == [kind |-> "placeholder"]

\* The state around a freshly constructed coordinator: camera entity created
\* but not yet added, no notification, nothing stored in hass, no services
AuxInit ==
    /\ camera = [last_image |-> NoImage, added |-> FALSE, returned |-> NoImage]
    /\ notif = [data |-> NoNotification, expiry |-> 0, drawn |-> NoImage]
    /\ hass = [data |-> {}, registered |-> <<>>, ret |-> "None"]
    /\ manual_at = -1
    /\ call = [fn |-> "None"]

Init == (\E opts \in OptionInputs : Construct(opts)) /\ AuxInit

-----------------------------------------------------------------------------
(* Operations *)

\* time.time() moves on
Tick ==
    /\ now < MaxTime
    /\ now' = now + 1
    /\ event' = [op |-> "tick", arg |-> 0]
    /\ UNCHANGED <<options, layouts, current_screen, last_screen_change,
                   last_image, update_interval, pc, inflight, uploads, result,
                   refresh_requested, built, raw_options>>

\* Variant of async_set_screen: _last_screen_change is not set
SetScreenAs_no_timer_reset(op, screen_index) ==
    /\ event' = [op |-> op, arg |-> screen_index]
    /\ IF ValidScreenIndex(screen_index, Len(layouts))
       THEN /\ current_screen' = screen_index
            /\ refresh_requested' = TRUE
       ELSE UNCHANGED <<current_screen, refresh_requested>>
    /\ UNCHANGED <<options, layouts, last_screen_change, last_image,
                   update_interval, now, pc, inflight, uploads, result, built,
                   raw_options>>

\* GeekMagicCoordinator.async_set_screen(screen_index), as called by op
SetScreenAs(op, screen_index) ==
    /\ event' = [op |-> op, arg |-> screen_index]
    /\ IF ValidScreenIndex(screen_index, Len(layouts))
       THEN /\ current_screen' = screen_index
            /\ last_screen_change' = now
            /\ refresh_requested' = TRUE
       ELSE UNCHANGED <<current_screen, last_screen_change, refresh_requested>>
    /\ UNCHANGED <<options, layouts, last_image, update_interval, now, pc,
                   inflight, uploads, result, built, raw_options>>

async_set_screen(screen_index) == SetScreenAs("set_screen", screen_index)

\* GeekMagicCoordinator.async_next_screen
async_next_screen ==
    IF Len(layouts) > 0
    THEN SetScreenAs("next_screen", NextScreen(current_screen, Len(layouts)))
    ELSE /\ event' = [op |-> "next_screen", arg |-> -1]
         /\ UNCHANGED <<options, layouts, current_screen, last_screen_change,
                        last_image, update_interval, now, pc, inflight,
                        uploads, result, refresh_requested, built, raw_options>>

\* GeekMagicCoordinator.async_previous_screen
async_previous_screen ==
    IF Len(layouts) > 0
    THEN SetScreenAs("previous_screen", PrevScreen(current_screen, Len(layouts)))
    ELSE /\ event' = [op |-> "previous_screen", arg |-> -1]
         /\ UNCHANGED <<options, layouts, current_screen, last_screen_change,
                        last_image, update_interval, now, pc, inflight,
                        uploads, result, refresh_requested, built, raw_options>>

\* GeekMagicCoordinator.update_options(opts)
update_options(opts) ==
    LET migrated == _migrate_options(opts)
        setup == _setup_screens(migrated, layouts, current_screen, built + 1)
    IN  /\ built < MaxBuilds
        /\ raw_options' = opts
        /\ options' = migrated
        /\ update_interval' =
               Get(migrated, CONF_REFRESH_INTERVAL, DEFAULT_REFRESH_INTERVAL)
        /\ layouts' = setup.layouts
        /\ current_screen' = setup.current_screen
        /\ built' = built + 1
        /\ event' = [op |-> "update_options", arg |-> Len(layouts),
                      was |-> current_screen]
        /\ UNCHANGED <<last_screen_change, last_image, now, pc, inflight,
                       uploads, result, refresh_requested>>

\* Variant of the except clause: the exception is swallowed and a result returned
RaiseUpdateFailed_swallowed ==
    /\ result' = [kind |-> "success",
                  current_screen |-> current_screen,
                  screen_name |-> current_screen_name(options, current_screen)]
    /\ pc' = "idle"
    /\ inflight' = NoImage

\* The except clause of _async_update_data: the cycle ends in UpdateFailed
RaiseUpdateFailed ==
    /\ result' = UpdateFailed
    /\ pc' = "idle"
    /\ inflight' = NoImage

\* _async_update_data up to an exception raised before the upload
PollRenderFails(at) ==
    LET cycled == AutoCycle(options, Len(layouts), current_screen,
                            last_screen_change, now)
    IN  /\ pc = "idle"
        /\ current_screen' = cycled.current_screen
        /\ last_screen_change' = cycled.last_screen_change
        /\ last_image' = IF at = "to_jpeg"
                         THEN Render(layouts, cycled.current_screen)
                         ELSE last_image
        /\ uploads' = 0
        /\ refresh_requested' = FALSE
        /\ RaiseUpdateFailed
        /\ event' = [op |-> "poll_render_failed",
                     arg |-> now - last_screen_change]
        /\ UNCHANGED <<options, layouts, update_interval, now, built,
                       raw_options>>

\* _async_update_data up to the await of device.upload_and_display
PollRender ==
    LET cycled == AutoCycle(options, Len(layouts), current_screen,
                            last_screen_change, now)
        img == Render(layouts, cycled.current_screen)
    IN  /\ pc = "idle"
        /\ current_screen' = cycled.current_screen
        /\ last_screen_change' = cycled.last_screen_change
        /\ last_image' = img
        /\ inflight' = img
        /\ uploads' = 1
        /\ pc' = "uploading"
        /\ refresh_requested' = FALSE
        /\ event' = [op |-> "poll", arg |-> now - last_screen_change]
        /\ UNCHANGED <<options, layouts, update_interval, now, result, built,
                       raw_options>>

\* upload_and_display returns: _async_update_data returns its result
UploadSucceeds ==
    /\ pc = "uploading"
    /\ result' = [kind |-> "success",
                  current_screen |-> current_screen,
                  screen_name |-> current_screen_name(options, current_screen)]
    /\ pc' = "idle"
    /\ inflight' = NoImage
    /\ event' = [op |-> "upload_ok", arg |-> 0]
    /\ UNCHANGED <<options, layouts, current_screen, last_screen_change,
                   last_image, update_interval, now, uploads,
                   refresh_requested, built, raw_options>>

\* upload_and_display raises
UploadFails ==
    /\ pc = "uploading"
    /\ RaiseUpdateFailed
    /\ event' = [op |-> "upload_failed", arg |-> 0]
    /\ UNCHANGED <<options, layouts, current_screen, last_screen_change,
                   last_image, update_interval, now, uploads,
                   refresh_requested, built, raw_options>>

Next ==
    \/ Tick /\ UNCHANGED aux_vars
    \/ (\E i \in ScreenIndexInputs : async_set_screen(i)) /\ UNCHANGED aux_vars
    \/ async_next_screen /\ UNCHANGED aux_vars
    \/ async_previous_screen /\ UNCHANGED aux_vars
    \/ (\E opts \in OptionInputs : update_options(opts)) /\ UNCHANGED aux_vars
    \/ (\E at \in RenderFailurePoints : PollRenderFails(at)) /\ UNCHANGED aux_vars
    \/ PollRender /\ UNCHANGED aux_vars
    \/ UploadSucceeds /\ UNCHANGED aux_vars
    \/ UploadFails /\ UNCHANGED aux_vars

Spec == Init /\ [][Next]_vars

-----------------------------------------------------------------------------
(* Migration study: the coordinator is constructed from any options of the *)
(* old or the new format, then update_options is called with the options   *)
(* the coordinator holds (the migrated ones).                              *)

MigrateInputs ==
    { Restrict([refresh_interval |-> r, layout |-> l, widgets |-> w,
                screens |-> s, screen_cycle_interval |-> c], K) :
        r \in {10, 15},
        l \in {LAYOUT_GRID_2X2, LAYOUT_SPLIT},
        w \in {<<>>, <<DefaultClock, [type |-> "text", slot |-> 1]>>},
        s \in {<<>>, <<SDash>>, <<SMedia, SPlain>>},
        c \in {0, 30},
        K \in SUBSET {CONF_REFRESH_INTERVAL, CONF_LAYOUT, CONF_WIDGETS,
                      CONF_SCREENS, CONF_SCREEN_CYCLE_INTERVAL} }

InitMigrate == (\E opts \in MigrateInputs : Construct(opts)) /\ AuxInit

NextMigrate == update_options(options) /\ UNCHANGED aux_vars

SpecMigrate == InitMigrate /\ [][NextMigrate]_vars

-----------------------------------------------------------------------------
(* Preview camera (camera.py) *)

\* Places of async_camera_image's try block where an exception can be raised:
\* while the image is read, or in the logging call after it was cached
CameraFaults == {"none", "read", "log"}

\* Variant of the body of async_camera_image: without an image it returns None
CameraImage_no_placeholder(cached, coordinator_image, fault) ==
    LET image == IF cached # NoImage THEN cached ELSE coordinator_image
    IN  IF fault = "read"
        THEN [last_image |-> cached, returned |-> Placeholder]
        ELSE IF image # NoImage
             THEN [last_image |-> image,
                   returned |-> IF fault = "log" THEN Placeholder ELSE image]
             ELSE [last_image |-> cached, returned |-> NoImage]

\* The body of GeekMagicPreviewCamera.async_camera_image: the new
\* self._last_image and the bytes returned
CameraImage(cached, coordinator_image, fault) ==
    LET image == IF cached # NoImage THEN cached ELSE coordinator_image
    IN  IF fault = "read"
        THEN [last_image |-> cached, returned |-> Placeholder]
        ELSE IF image # NoImage
             THEN [last_image |-> image,
                   returned |-> IF fault = "log" THEN Placeholder ELSE image]
             ELSE [last_image |-> cached, returned |-> Placeholder]

\* GeekMagicPreviewCamera.async_added_to_hass
async_added_to_hass ==
    /\ ~camera.added
    /\ camera' = [camera EXCEPT !.added = TRUE, !.last_image = last_image]
    /\ event' = [op |-> "camera_added", arg |-> 0]
    /\ UNCHANGED coordinator_vars
    /\ UNCHANGED <<notif, hass, manual_at, call>>

\* Variant of _handle_coordinator_update: an update that failed clears the
\* cached image
_handle_coordinator_update_clears_on_failure ==
    /\ camera.added
    /\ pc = "idle"
    /\ result # NoResult
    /\ camera' = [camera EXCEPT !.last_image =
                      IF result = UpdateFailed THEN NoImage ELSE last_image]
    /\ event' = [op |-> "camera_update", arg |-> 0]
    /\ UNCHANGED coordinator_vars
    /\ UNCHANGED <<notif, hass, manual_at, call>>

\* GeekMagicPreviewCamera._handle_coordinator_update, called by the
\* coordinator after a poll cycle has finished (successfully or not)
_handle_coordinator_update ==
    /\ camera.added
    /\ pc = "idle"
    /\ result # NoResult
    /\ camera' = [camera EXCEPT !.last_image =
                      IF last_image # NoImage THEN last_image ELSE @]
    /\ event' = [op |-> "camera_update", arg |-> 0]
    /\ UNCHANGED coordinator_vars
    /\ UNCHANGED <<notif, hass, manual_at, call>>

\* GeekMagicPreviewCamera.async_camera_image
async_camera_image(fault) ==
    LET out == CameraImage(camera.last_image, last_image, fault)
    IN  /\ camera' = [camera EXCEPT !.last_image = out.last_image,
                                    !.returned = out.returned]
        /\ event' = [op |-> "camera_image", arg |-> 0, fault |-> fault]
        /\ UNCHANGED coordinator_vars
        /\ UNCHANGED <<notif, hass, manual_at, call>>

\* Options of the coordinators the camera is studied with: two auto-cycling
\* screens, a single screen, no screen
CameraOptionInputs ==
    { o \in OptionInputs :
        \/ o = OldEmpty
        \/ (CONF_SCREENS \in DOMAIN o /\ Len(o.screens) \in {0, 2}) }

InitCamera == (\E opts \in CameraOptionInputs : Construct(opts)) /\ AuxInit

NextCamera ==
    \/ Tick /\ UNCHANGED aux_vars
    \/ async_next_screen /\ UNCHANGED aux_vars
    \/ (\E at \in RenderFailurePoints : PollRenderFails(at)) /\ UNCHANGED aux_vars
    \/ PollRender /\ UNCHANGED aux_vars
    \/ UploadSucceeds /\ UNCHANGED aux_vars
    \/ UploadFails /\ UNCHANGED aux_vars
    \/ async_added_to_hass
    \/ _handle_coordinator_update
    \/ \E fault \in CameraFaults : async_camera_image(fault)

SpecCamera == InitCamera /\ [][NextCamera]_vars

-----------------------------------------------------------------------------
(* Notifications: trigger_notification and the render's choice of layout,  *)
(* as the tests of tests/test_notification.py describe them.               *)

\* Notification data handed to trigger_notification
NotificationInputs ==
    { [message |-> "Hello World", title |-> "Alert", duration |-> 1],
      [message |-> "Active", duration |-> 2] }

\* Variant of the expiry test: a stored notification never expires
NotificationActive_never_expires(data, expiry, t, at_expiry) ==
    data # NoNotification

\* Whether a render at time t draws the notification: before the expiry it
\* does, after it does not; at_expiry is the outcome at t = expiry
NotificationActive(data, expiry, t, at_expiry) ==
    /\ data # NoNotification
    /\ (t < expiry \/ (t = expiry /\ at_expiry))

\* GeekMagicCoordinator.trigger_notification(data)
trigger_notification(data) ==
    /\ notif' = [notif EXCEPT !.data = data, !.expiry = now + data.duration]
    /\ refresh_requested' = TRUE
    /\ event' = [op |-> "trigger_notification", arg |-> data.duration,
                 data |-> data]
    /\ UNCHANGED <<options, layouts, current_screen, last_screen_change,
                   last_image, update_interval, now, pc, inflight, uploads,
                   result, built, raw_options>>
    /\ UNCHANGED <<camera, hass, manual_at, call>>

\* GeekMagicCoordinator._render_display: draws the notification layout while
\* the notification is active, the current screen's layout otherwise
_render_display(at_expiry) ==
    /\ notif' = [notif EXCEPT !.drawn =
                     IF NotificationActive(notif.data, notif.expiry, now, at_expiry)
                     THEN [kind |-> "notification", data |-> notif.data]
                     ELSE Render(layouts, current_screen)]
    /\ event' = [op |-> "render_display", arg |-> 0]
    /\ UNCHANGED coordinator_vars
    /\ UNCHANGED <<camera, hass, manual_at, call>>

NextNotify ==
    \/ Tick /\ UNCHANGED aux_vars
    \/ async_next_screen /\ UNCHANGED aux_vars
    \/ \E data \in NotificationInputs : trigger_notification(data)
    \/ \E at_expiry \in BOOLEAN : _render_display(at_expiry)

SpecNotify == InitCamera /\ [][NextNotify]_vars

-----------------------------------------------------------------------------
(* Entry set-up, unload and service registration of the integration, as    *)
(* the tests of tests/test_integration.py describe them.                   *)

\* Config entries (entry.entry_id)
EntryInputs == {"entry_1", "entry_2", "entry_3"}

\* The services of the integration, in registration order
SERVICES == <<"refresh", "brightness", "set_screen", "next_screen",
              "previous_screen">>

\* hass.services.has_service(DOMAIN, name), given the registrations made
has_service(registered, name) ==
    \E i \in 1..Len(registered) : registered[i] = name

\* Variant of async_setup_services: registers without asking has_service
SetupServices_unguarded(registered) == registered \o SERVICES

\* async_setup_services: the async_register calls made so far, after the call
SetupServices(registered) ==
    IF has_service(registered, "refresh")
    THEN registered
    ELSE registered \o SERVICES

\* Variant of async_unload_entry: the coordinator is removed whatever the
\* platform unload returned
UnloadEntry_always_pops(data, entry, unload_ok) ==
    [data |-> data \ {entry},
     ret |-> IF unload_ok THEN "True" ELSE "False"]

\* async_unload_entry: the new hass.data[DOMAIN] and the value returned
UnloadEntry(data, entry, unload_ok) ==
    [data |-> IF unload_ok THEN data \ {entry} ELSE data,
     ret |-> IF unload_ok THEN "True" ELSE "False"]

\* async_setup_entry(hass, entry); connected is what device.test_connection
\* returned
async_setup_entry(entry, connected) ==
    /\ entry \notin hass.data
    /\ hass' = IF connected
               THEN [data |-> hass.data \cup {entry},
                     registered |-> SetupServices(hass.registered),
                     ret |-> "True"]
               ELSE [hass EXCEPT !.ret = "False"]
    /\ event' = [op |-> "setup_entry", arg |-> 0, entry |-> entry,
                 ok |-> connected]
    /\ UNCHANGED coordinator_vars
    /\ UNCHANGED <<camera, notif, manual_at, call>>

\* async_unload_entry(hass, entry); unload_ok is what async_unload_platforms
\* returned
async_unload_entry(entry, unload_ok) ==
    LET out == UnloadEntry(hass.data, entry, unload_ok)
    IN  /\ entry \in hass.data
        /\ hass' = [hass EXCEPT !.data = out.data, !.ret = out.ret]
        /\ event' = [op |-> "unload_entry", arg |-> 0, entry |-> entry,
                     ok |-> unload_ok]
        /\ UNCHANGED coordinator_vars
        /\ UNCHANGED <<camera, notif, manual_at, call>>

\* async_setup_services(hass), called on its own
async_setup_services ==
    /\ hass' = [hass EXCEPT !.registered = SetupServices(@), !.ret = "None"]
    /\ event' = [op |-> "setup_services", arg |-> Len(hass.registered)]
    /\ UNCHANGED coordinator_vars
    /\ UNCHANGED <<camera, notif, manual_at, call>>

NextEntry ==
    \/ \E entry \in EntryInputs, connected \in BOOLEAN :
           async_setup_entry(entry, connected)
    \/ \E entry \in EntryInputs, unload_ok \in BOOLEAN :
           async_unload_entry(entry, unload_ok)
    \/ async_setup_services

SpecEntry == InitCamera /\ [][NextEntry]_vars

-----------------------------------------------------------------------------
(* Template option resolution (template_utils.py).  A Python value is a    *)
(* record tagged with its type in field py; a float carries its class      *)
(* (finite, nan, inf) and, when finite, its value in tenths.               *)

PyNone == [py |-> "None"]
PyStr(text) == [py |-> "str", s |-> text]
PyInt(n) == [py |-> "int", n |-> n]
PyFloat(class, tenths) == [py |-> "float", class |-> class, tenths |-> tenths]
PyDict(d) == [py |-> "dict", v |-> d]
PyList(items) == [py |-> "list", v |-> items]

EmptyDict == Restrict(PyNone, {})

\* d[k] = v on a dictionary
Put(d, k, v) == [x \in DOMAIN d \cup {k} |-> IF x = k THEN v ELSE d[x]]

\* str.strip() on the template sources used
Strip(text) ==
    CASE text = "   " -> ""
      [] text = "  {{ states('sensor.goal') }}  " -> "{{ states('sensor.goal') }}"
      [] OTHER -> text

\* Template(source, hass).render(parse_result=False) with the entity states
\* of the tests: the rendered text, or the exception raised
TemplateEngine(source) ==
    CASE source = "{{ states('sensor.foo') }}" -> [ok |-> TRUE, text |-> "dynamic"]
      [] source = "{{ '' }}" -> [ok |-> TRUE, text |-> ""]
      [] source = "{{ states('sensor.value') }}" -> [ok |-> TRUE, text |-> "12.5"]
      [] source = "{{ states('sensor.goal') }}" -> [ok |-> TRUE, text |-> "42"]
      [] source = "{{ states('sensor.big') }}" -> [ok |-> TRUE, text |-> "500"]
      [] source = "{{ 'not-a-number' }}" -> [ok |-> TRUE, text |-> "not-a-number"]
      [] source = "{{ 'nan' }}" -> [ok |-> TRUE, text |-> "nan"]
      [] source = "{{ 'inf' }}" -> [ok |-> TRUE, text |-> "inf"]
      [] source = "{{ states('sensor.foo' }}" -> [ok |-> FALSE, text |-> "TemplateError"]
      [] OTHER -> [ok |-> FALSE, text |-> "Exception"]

\* float(text) on the rendered texts: a float, or None for ValueError
FloatOfText(text) ==
    CASE text = "12.5" -> PyFloat("finite", 125)
      [] text = "42" -> PyFloat("finite", 420)
      [] text = "500" -> PyFloat("finite", 5000)
      [] text = "nan" -> PyFloat("nan", 0)
      [] text = "inf" -> PyFloat("inf", 0)
      [] OTHER -> PyNone

\* template_utils._parse_float
_parse_float(value) ==
    CASE value.py = "str" -> FloatOfText(value.s)
      [] value.py = "float" -> value
      [] value.py = "int" -> PyFloat("finite", value.n * 10)
      [] OTHER -> PyNone

\* template_utils._render_template
_render_template(template) ==
    IF template.py # "str"
    THEN PyNone
    ELSE LET source == Strip(template.s)
         IN  IF source = ""
             THEN PyNone
             ELSE IF TemplateEngine(source).ok
                  THEN PyStr(TemplateEngine(source).text)
                  ELSE PyNone

\* template_utils.render_string_template
render_string_template(template) == _render_template(template)

\* Variant of render_numeric_template: the math.isfinite test is missing
render_numeric_template_any_float(template) ==
    LET rendered == _render_template(template)
    IN  IF rendered = PyNone THEN PyNone ELSE _parse_float(rendered)

\* template_utils.render_numeric_template
render_numeric_template(template) ==
    LET rendered == _render_template(template)
        parsed == _parse_float(rendered)
    IN  IF rendered = PyNone THEN PyNone
        ELSE IF parsed = PyNone THEN PyNone
        ELSE IF parsed.class # "finite" THEN PyNone
        ELSE parsed

\* resolved[key] = value unless value is None
PutUnlessNone(resolved, key, value) ==
    IF value # PyNone THEN Put(resolved, key, value) ELSE resolved

\* One pass of the loop of _resolve_multi_progress_items: the resolved item
ResolveItem(item) ==
    LET item_options == IF item.py = "dict" THEN item.v ELSE EmptyDict
        label_value ==
            render_string_template(Get(item_options, "label_template", PyNone))
        target_value ==
            render_numeric_template(Get(item_options, "target_template", PyNone))
    IN  PutUnlessNone(PutUnlessNone(EmptyDict, "label", label_value),
                      "target", target_value)

\* Variant of _resolve_multi_progress_items: items that resolved nothing are
\* not appended
_resolve_multi_progress_items_dense(opts) ==
    LET items == Get(opts, "items", PyNone)
        resolved_items ==
            IF items.py = "list"
            THEN SelectSeq([i \in 1..Len(items.v) |-> ResolveItem(items.v[i])],
                           LAMBDA r : r # EmptyDict)
            ELSE <<>>
    IN  IF items.py # "list" \/ resolved_items = <<>>
        THEN PyNone
        ELSE PyList(resolved_items)

\* template_utils._resolve_multi_progress_items
_resolve_multi_progress_items(opts) ==
    LET items == Get(opts, "items", PyNone)
        resolved_items ==
            IF items.py = "list"
            THEN [i \in 1..Len(items.v) |-> ResolveItem(items.v[i])]
            ELSE <<>>
        any_resolved ==
            \E i \in 1..Len(resolved_items) : resolved_items[i] # EmptyDict
    IN  IF items.py # "list" \/ ~any_resolved
        THEN PyNone
        ELSE PyList(resolved_items)

\* template_utils.resolve_widget_template_options
resolve_widget_template_options(widget_type, opts) ==
    LET numeric(key) == render_numeric_template(Get(opts, key, PyNone))
        string(key) == render_string_template(Get(opts, key, PyNone))
    IN  CASE widget_type = "gauge" ->
               PutUnlessNone(
                   PutUnlessNone(EmptyDict, "min", numeric("min_template")),
                   "max", numeric("max_template"))
          [] widget_type = "text" ->
               PutUnlessNone(EmptyDict, "text", string("text_template"))
          [] widget_type = "progress" ->
               PutUnlessNone(EmptyDict, "target", numeric("target_template"))
          [] widget_type = "multi_progress" ->
               PutUnlessNone(
                   PutUnlessNone(EmptyDict, "title", string("title_template")),
                   "items", _resolve_multi_progress_items(opts))
          [] widget_type = "status" ->
               PutUnlessNone(
                   PutUnlessNone(EmptyDict, "on_text", string("on_text_template")),
                   "off_text", string("off_text_template"))
          [] widget_type = "status_list" ->
               PutUnlessNone(EmptyDict, "title", string("title_template"))
          [] OTHER -> EmptyDict

\* MultiProgressWidget._get_resolved_item_values, index counted from 0
_get_resolved_item_values(resolved_options, index) ==
    LET resolved_items == Get(resolved_options, "items", PyNone)
    IN  IF resolved_items.py # "list"
        THEN EmptyDict
        ELSE IF index < 0 \/ index >= Len(resolved_items.v)
        THEN EmptyDict
        ELSE resolved_items.v[index + 1]  \* every entry is a dictionary

(* Inputs of the template study *)

MaxItems == 2

Blank == PyStr("   ")
Broken == PyStr("{{ states('sensor.foo' }}")
Unknown == PyStr("{{ 1 / 0 }}")
RendersEmpty == PyStr("{{ '' }}")
RendersDynamic == PyStr("{{ states('sensor.foo') }}")
RendersWord == PyStr("{{ 'not-a-number' }}")
RendersValue == PyStr("{{ states('sensor.value') }}")
RendersGoal == PyStr("  {{ states('sensor.goal') }}  ")
RendersBig == PyStr("{{ states('sensor.big') }}")
RendersNan == PyStr("{{ 'nan' }}")
RendersInf == PyStr("{{ 'inf' }}")

TemplateValues ==
    { PyInt(5), Blank, Broken, Unknown, RendersEmpty, RendersDynamic,
      RendersWord, RendersValue, RendersGoal, RendersNan, RendersInf }

\* every dictionary that gives some of the keys a template value
TemplateDicts(keys) ==
    UNION { [K -> TemplateValues] : K \in SUBSET keys }

ItemTemplates == { RendersDynamic, Broken, RendersBig, RendersNan }

\* configured items of a multi_progress widget: dictionaries with a static
\* label and optional templates, and one entry that is not a dictionary
ItemInputs ==
    { PyDict(Put(d, "label", PyStr("Steps"))) :
        d \in UNION { [K -> ItemTemplates] :
                        K \in SUBSET {"label_template", "target_template"} } }
    \cup { PyStr("sensor.steps") }

ItemLists == UNION { [1..n -> ItemInputs] : n \in 0..MaxItems }

MultiProgressInputs ==
    { Put(t, "items", PyList(items)) :
        t \in TemplateDicts({"title_template"}), items \in ItemLists }
    \cup { Put(t, "items", PyStr("sensor.steps")) :
             t \in TemplateDicts({"title_template"}) }
    \cup TemplateDicts({"title_template"})

\* the options each widget type is called with: its own template keys and a
\* template key of another widget type
WidgetInputs(widget_type) ==
    CASE widget_type = "gauge" -> TemplateDicts({"min_template", "max_template"})
      [] widget_type = "text" ->
           UNION { {d, Put(d, "min_template", RendersValue)} :
                     d \in TemplateDicts({"text_template"}) }
      [] widget_type = "progress" ->
           UNION { {d, Put(d, "text_template", RendersDynamic)} :
                     d \in TemplateDicts({"target_template"}) }
      [] widget_type = "multi_progress" -> MultiProgressInputs
      [] widget_type = "status" ->
           TemplateDicts({"on_text_template", "off_text_template"})
      [] widget_type = "status_list" -> TemplateDicts({"title_template"})
      [] OTHER -> TemplateDicts({"text_template", "target_template"})

WidgetTypes ==
    {"gauge", "text", "progress", "multi_progress", "status", "status_list",
     "clock"}

(* The template study: the state before the call holds the arguments, the  *)
(* call stores what resolve_widget_template_options returned.              *)

InitTemplate ==
    /\ Construct(OldEmpty)
    /\ camera = [last_image |-> NoImage, added |-> FALSE, returned |-> NoImage]
    /\ notif = [data |-> NoNotification, expiry |-> 0, drawn |-> NoImage]
    /\ hass = [data |-> {}, registered |-> <<>>, ret |-> "None"]
    /\ manual_at = -1
    /\ \E widget_type \in WidgetTypes :
         \E opts \in WidgetInputs(widget_type) :
           call = [fn |-> "pending", widget_type |-> widget_type,
                   options |-> opts, ret |-> EmptyDict]

ResolveTemplates ==
    /\ call.fn = "pending"
    /\ call' = [call EXCEPT
                  !.fn = "resolve_widget_template_options",
                  !.ret = resolve_widget_template_options(call.widget_type,
                                                          call.options)]
    /\ event' = [op |-> "resolve_templates", arg |-> 0]
    /\ UNCHANGED <<coordinator_vars, camera, notif, hass, manual_at>>

NextTemplate == ResolveTemplates

SpecTemplate == InitTemplate /\ [][NextTemplate]_vars

-----------------------------------------------------------------------------
(* Manual screen changes against the auto-cycle: the coordinator is built   *)
(* with an auto-cycle interval, and manual_at records the time of the last  *)
(* manual change that took effect, cleared by an options update.            *)

ManualOptionInputs ==
    { opts \in OptionInputs :
        Get(_migrate_options(opts), CONF_SCREEN_CYCLE_INTERVAL,
            DEFAULT_SCREEN_CYCLE_INTERVAL) > 0 }

InitManual == (\E opts \in ManualOptionInputs : Construct(opts)) /\ AuxInit

\* A screen selection: it takes effect when the index passed to
\* async_set_screen is one of the screens
ManualChange(A) ==
    /\ A
    /\ manual_at' = IF ValidScreenIndex(event'.arg, Len(layouts))
                    THEN now
                    ELSE manual_at
    /\ UNCHANGED <<camera, notif, hass, call>>

OptionsUpdate(A) ==
    /\ A
    /\ manual_at' = -1
    /\ UNCHANGED <<camera, notif, hass, call>>

NextManual ==
    \/ Tick /\ UNCHANGED aux_vars
    \/ ManualChange(\E i \in ScreenIndexInputs : async_set_screen(i))
    \/ ManualChange(async_next_screen)
    \/ ManualChange(async_previous_screen)
    \/ OptionsUpdate(\E opts \in ManualOptionInputs : update_options(opts))
    \/ PollRenderFails("render") /\ UNCHANGED aux_vars
    \/ PollRender /\ UNCHANGED aux_vars
    \/ UploadSucceeds /\ UNCHANGED aux_vars
    \/ UploadFails /\ UNCHANGED aux_vars

SpecManual == InitManual /\ [][NextManual]_vars

-----------------------------------------------------------------------------
(* Unattended cycling: a coordinator with an auto-cycle interval and at    *)
(* least two screens, time passing, poll cycles whose uploads succeed, and *)
(* no manual change or options update.  The update coordinator schedules a *)
(* poll every update_interval, so a poll that can start does start, and an *)
(* upload that is pending returns.                                         *)

CycleOptionInputs ==
    { [refresh_interval |-> 10, screen_cycle_interval |-> c, screens |-> scr] :
        c \in {1, 2}, scr \in { <<SDash, SMedia>>, <<SDash, SMedia, SPlain>> } }

InitCycle == (\E opts \in CycleOptionInputs : Construct(opts)) /\ AuxInit

NextCycle ==
    \/ Tick /\ UNCHANGED aux_vars
    \/ PollRender /\ UNCHANGED aux_vars
    \/ UploadSucceeds /\ UNCHANGED aux_vars

SpecCycle ==
    /\ InitCycle
    /\ [][NextCycle]_vars
    /\ WF_vars(PollRender /\ UNCHANGED aux_vars)
    /\ WF_vars(UploadSucceeds /\ UNCHANGED aux_vars)

-----------------------------------------------------------------------------
(* Layout construction study: _create_layout is called with a screen        *)
(* configuration drawn from the layout types and short widget lists.        *)

MaxWidgets == 2

WidgetConfigInputs ==
    UNION { { Restrict([type |-> t, slot |-> sl], K) :
                t \in {"clock", "gauge", "bogus"}, sl \in {-1, 0, 1, 4, 6} } :
            K \in {{"type", "slot"}, {"type"}, {"slot"}} }

WidgetListInputs == UNION { [1..n -> WidgetConfigInputs] : n \in 0..MaxWidgets }

ScreenConfigInputs ==
    { [layout |-> l, widgets |-> w] :
        l \in {LAYOUT_GRID_2X2, LAYOUT_GRID_2X3, LAYOUT_HERO, LAYOUT_SPLIT,
               "bogus"},
        w \in WidgetListInputs }
    \cup { [widgets |-> w] : w \in WidgetListInputs }
    \cup { [layout |-> LAYOUT_SPLIT] }

InitLayout ==
    /\ Construct(OldEmpty)
    /\ camera = [last_image |-> NoImage, added |-> FALSE, returned |-> NoImage]
    /\ notif = [data |-> NoNotification, expiry |-> 0, drawn |-> NoImage]
    /\ hass = [data |-> {}, registered |-> <<>>, ret |-> "None"]
    /\ manual_at = -1
    /\ \E screen_config \in ScreenConfigInputs :
         call = [fn |-> "pending", screen_config |-> screen_config,
                 ret |-> [cls |-> "None", slots |-> <<>>, built |-> 0]]

CreateLayout ==
    /\ call.fn = "pending"
    /\ call' = [call EXCEPT !.fn = "_create_layout",
                            !.ret = _create_layout(call.screen_config, 0)]
    /\ event' = [op |-> "create_layout", arg |-> 0]
    /\ UNCHANGED <<coordinator_vars, camera, notif, hass, manual_at>>

NextLayout == CreateLayout

SpecLayout == InitLayout /\ [][NextLayout]_vars

-----------------------------------------------------------------------------
(* Float arithmetic of the widgets.  A float is PyFloat(class, tenths) with *)
(* class finite, inf, -inf or nan; finite values are exact.  A quotient is  *)
(* a record [class, num, den] with den > 0 when finite.  The special values *)
(* follow IEEE 754 as Python does: nan compares false with everything.      *)

PosInf == PyFloat("inf", 0)
NegInf == PyFloat("-inf", 0)
NaN == PyFloat("nan", 0)
Finite(tenths) == PyFloat("finite", tenths)

\* -a
FNeg(a) ==
    CASE a.class = "inf" -> NegInf
      [] a.class = "-inf" -> PosInf
      [] a.class = "nan" -> NaN
      [] OTHER -> Finite(-a.tenths)

\* a + b
FAdd(a, b) ==
    CASE a.class = "nan" \/ b.class = "nan" -> NaN
      [] a.class # "finite" /\ b.class # "finite" ->
           IF a.class = b.class THEN a ELSE NaN
      [] a.class # "finite" -> a
      [] b.class # "finite" -> b
      [] OTHER -> Finite(a.tenths + b.tenths)

\* a - b
FSub(a, b) == FAdd(a, FNeg(b))

\* a <= b
FLe(a, b) ==
    CASE a.class = "nan" \/ b.class = "nan" -> FALSE
      [] a.class = "-inf" \/ b.class = "inf" -> TRUE
      [] a.class = "inf" \/ b.class = "-inf" -> FALSE
      [] OTHER -> a.tenths <= b.tenths

\* a < b
FLt(a, b) == FLe(a, b) /\ ~FLe(b, a)

Ratio(num, den) == [class |-> "finite", num |-> num, den |-> den]
RatioOther(class) == [class |-> class, num |-> 0, den |-> 1]

\* a / b
FDiv(a, b) ==
    CASE a.class = "nan" \/ b.class = "nan" -> RatioOther("nan")
      [] b.class # "finite" ->
           IF a.class # "finite" THEN RatioOther("nan") ELSE Ratio(0, 1)
      [] b.tenths = 0 -> RatioOther("ZeroDivisionError")
      [] a.class # "finite" ->
           IF (a.class = "inf") = (b.tenths > 0)
           THEN RatioOther("inf") ELSE RatioOther("-inf")
      [] OTHER ->
           IF b.tenths > 0 THEN Ratio(a.tenths, b.tenths)
           ELSE Ratio(-a.tenths, -b.tenths)

\* q * k for an integer k > 0
RTimes(q, k) == IF q.class = "finite" THEN Ratio(q.num * k, q.den) ELSE q

\* p < q
RLt(p, q) ==
    CASE p.class \notin {"finite", "inf", "-inf"} -> FALSE
      [] q.class \notin {"finite", "inf", "-inf"} -> FALSE
      [] p.class = "inf" \/ q.class = "-inf" -> FALSE
      [] p.class = "-inf" \/ q.class = "inf" -> TRUE
      [] OTHER -> p.num * q.den < q.num * p.den

\* Python's min(a, b) and max(a, b): the first argument unless the second
\* compares smaller (greater)
PyMin(a, b) == IF RLt(b, a) THEN b ELSE a
PyMax(a, b) == IF RLt(a, b) THEN b ELSE a

\* helpers.calculate_percent
calculate_percent(value, min_val, max_val) ==
    LET value_range == FSub(max_val, min_val)
    IN  IF FLe(value_range, Finite(0))
        THEN Ratio(0, 1)
        ELSE PyMax(Ratio(0, 1),
                   PyMin(Ratio(100, 1),
                         RTimes(FDiv(FSub(value, min_val), value_range), 100)))

\* The floats an entity state or an option can parse to

FloatInputs ==
    { Finite(t) : t \in {-10, 0, 5, 10, 30} } \cup {PosInf, NegInf, NaN}

PercentCalls ==
    { [target |-> "calculate_percent", value |-> value, min_val |-> min_val,
       max_val |-> max_val] :
        value \in FloatInputs, min_val \in FloatInputs, max_val \in FloatInputs }

CalculatePercent ==
    /\ call.fn = "pending"
    /\ call.args.target = "calculate_percent"
    /\ call' = [call EXCEPT
                  !.fn = "calculate_percent",
                  !.ret = calculate_percent(call.args.value, call.args.min_val,
                                            call.args.max_val)]
    /\ event' = [op |-> "calculate_percent", arg |-> 0]
    /\ UNCHANGED <<coordinator_vars, camera, notif, hass, manual_at>>

\* The percentage of ProgressDisplay.render and MultiProgressDisplay.render:
\* min(100, (value / target) * 100) if target > 0 else 0
ProgressPercent(value, target) ==
    IF FLt(Finite(0), target)
    THEN PyMin(Ratio(100, 1), RTimes(FDiv(value, target), 100))
    ELSE Ratio(0, 1)

ProgressCalls ==
    { [target |-> "progress_percent", value |-> value, goal |-> goal] :
        value \in FloatInputs, goal \in FloatInputs }

DrawProgress ==
    /\ call.fn = "pending"
    /\ call.args.target = "progress_percent"
    /\ call' = [call EXCEPT
                  !.fn = "progress_percent",
                  !.ret = ProgressPercent(call.args.value, call.args.goal)]
    /\ event' = [op |-> "progress_percent", arg |-> 0]
    /\ UNCHANGED <<coordinator_vars, camera, notif, hass, manual_at>>

\* gauge._coerce_float (its _parse_float is the one of template_utils)
_coerce_float(value, default) ==
    IF _parse_float(value) = PyNone THEN default ELSE _parse_float(value)

\* The sort key of a threshold
ThresholdValue(threshold) ==
    _coerce_float(Get(threshold, "value", PyInt(0)), Finite(0))

\* Variant of the sort: the thresholds are taken in configuration order
SortThresholds_as_listed(thresholds) == thresholds

\* sorted(self.color_thresholds, key=...): a stable sort by threshold value
RECURSIVE SortThresholds(_)
SortThresholds(thresholds) ==
    IF thresholds = <<>>
    THEN <<>>
    ELSE LET n == Len(thresholds)
             rest == SortThresholds(SubSeq(thresholds, 1, n - 1))
             last == thresholds[n]
             \* last goes behind every entry that is not greater than it
             keep == { i \in 1..Len(rest) :
                         ~FLt(ThresholdValue(last), ThresholdValue(rest[i])) }
             k == IF keep = {} THEN 0
                  ELSE CHOOSE i \in keep : \A j \in keep : j <= i
         IN  SubSeq(rest, 1, k) \o <<last>> \o SubSeq(rest, k + 1, Len(rest))

\* The loop of _get_threshold_color over the first k sorted thresholds
RECURSIVE MatchingColor(_, _, _)
MatchingColor(sorted_thresholds, k, value) ==
    IF k = 0
    THEN "None"
    ELSE LET threshold == sorted_thresholds[k]
             threshold_color == Get(threshold, "color", "None")
         IN  IF FLe(ThresholdValue(threshold), value) /\ threshold_color # "None"
             THEN threshold_color
             ELSE MatchingColor(sorted_thresholds, k - 1, value)

\* GaugeWidget._get_threshold_color
_get_threshold_color(color_thresholds, value) ==
    IF color_thresholds = <<>>
    THEN "None"
    ELSE MatchingColor(SortThresholds(color_thresholds),
                       Len(color_thresholds), value)

\* threshold_color or self.config.color or ctx.theme.get_accent_color(slot)
GaugeColor(color_thresholds, value, config_color) ==
    LET threshold_color == _get_threshold_color(color_thresholds, value)
    IN  IF threshold_color # "None" THEN threshold_color
        ELSE IF config_color # "None" THEN config_color
        ELSE "accent"

MaxThresholds == 2

\* thresholds with a number or an unparsable text as value, with and without
\* a colour
ThresholdInputs ==
    { Restrict([value |-> v, color |-> c], K) :
        v \in {Finite(10), Finite(30), PyStr("high")},
        c \in {"red", "green"},
        K \in {{"value", "color"}, {"value"}, {"color"}} }

ThresholdCalls ==
    { [target |-> "gauge_color", color_thresholds |-> thr, value |-> value,
       config_color |-> config_color] :
        thr \in UNION { [1..n -> ThresholdInputs] : n \in 0..MaxThresholds },
        value \in FloatInputs,
        config_color \in {"None", "white"} }

DrawGauge ==
    /\ call.fn = "pending"
    /\ call.args.target = "gauge_color"
    /\ call' = [call EXCEPT
                  !.fn = "gauge_color",
                  !.ret = [threshold_color |->
                               _get_threshold_color(call.args.color_thresholds,
                                                    call.args.value),
                           color |->
                               GaugeColor(call.args.color_thresholds,
                                          call.args.value,
                                          call.args.config_color)]]
    /\ event' = [op |-> "gauge_color", arg |-> 0]
    /\ UNCHANGED <<coordinator_vars, camera, notif, hass, manual_at>>

-----------------------------------------------------------------------------
(* Dynamic bounds (widgets/gauge.py, widgets/progress.py): a gauge's min   *)
(* and max, a progress target and a multi-progress item target come from   *)
(* the resolved template value, the bound entity or the static option.     *)
(* The widget state is a record of the resolved options and of the         *)
(* entities by id; each entity carries its state text.                     *)

\* "not entity_id": None and the empty text are false
Truthy(value) == ~(value = PyNone \/ value = PyStr(""))

\* progress._normalize_entity_id
_normalize_entity_id(value) ==
    IF value.py = "str" /\ value # PyStr("") THEN value ELSE PyNone

\* Variant of the bound resolution: the bound entity is asked before the
\* resolved template value
_resolve_bound_entity_first(state, key, entity_id, fallback) ==
    LET entity == IF Truthy(entity_id)
                  THEN Get(state.entities, entity_id.s, PyNone)
                  ELSE PyNone
        parsed == IF entity = PyNone THEN PyNone
                  ELSE _parse_float(PyStr(entity.state))
        resolved_template_value ==
            _parse_float(Get(state.resolved_options, key, PyNone))
    IN  IF parsed # PyNone
        THEN parsed
        ELSE IF resolved_template_value # PyNone
        THEN resolved_template_value
        ELSE fallback

\* GaugeWidget._resolve_bound
_resolve_bound(state, key, entity_id, fallback) ==
    LET resolved_template_value ==
            _parse_float(Get(state.resolved_options, key, PyNone))
        entity == Get(state.entities, entity_id.s, PyNone)
        parsed == _parse_float(PyStr(entity.state))
    IN  IF resolved_template_value # PyNone
        THEN resolved_template_value
        ELSE IF ~Truthy(entity_id)
        THEN fallback
        ELSE IF entity = PyNone
        THEN fallback
        ELSE IF parsed = PyNone
        THEN fallback
        ELSE parsed

\* ProgressWidget._resolve_target; widget carries target and target_entity
_resolve_target(widget, state) ==
    LET resolved_target ==
            _parse_float(Get(state.resolved_options, "target", PyNone))
        target_entity == Get(state.entities, widget.target_entity.s, PyNone)
        parsed == _parse_float(PyStr(target_entity.state))
    IN  IF resolved_target # PyNone
        THEN resolved_target
        ELSE IF ~Truthy(widget.target_entity)
        THEN widget.target
        ELSE IF target_entity = PyNone
        THEN widget.target
        ELSE IF parsed = PyNone
        THEN widget.target
        ELSE parsed

\* MultiProgressWidget._resolve_item_target
_resolve_item_target(state, target_entity_id, fallback, template_value) ==
    LET parsed_template == _parse_float(template_value)
        target_entity == Get(state.entities, target_entity_id.s, PyNone)
        parsed == _parse_float(PyStr(target_entity.state))
    IN  IF parsed_template # PyNone
        THEN parsed_template
        ELSE IF ~Truthy(target_entity_id)
        THEN fallback
        ELSE IF target_entity = PyNone
        THEN fallback
        ELSE IF parsed = PyNone
        THEN fallback
        ELSE parsed

\* static options of a bound: absent, a number, an unparsable text; the
\* bound entity: absent, empty, named
BoundOptionInputs(key, entity_key) ==
    { Restrict((key :> v) @@ (entity_key :> id), K) :
        v \in {PyInt(2), PyStr("abc")},
        id \in {PyStr(""), PyStr("sensor.bound")},
        K \in SUBSET {key, entity_key} }

\* resolved value of a bound: absent, None, a number
ResolvedInputs(key) ==
    { Restrict((key :> v), K) :
        v \in {PyNone, Finite(10)}, K \in SUBSET {key} }

\* the bound entity is missing, or its state is a number or "unavailable"
EntityInputs ==
    {EmptyDict} \cup
    { ("sensor.bound" :> [state |-> s]) : s \in {"12.5", "unavailable"} }

BoundCalls ==
    { [target |-> "gauge_bounds", opts |-> lo @@ hi,
       state |-> [resolved_options |-> rlo @@ rhi, entities |-> ents]] :
        lo \in BoundOptionInputs("min", "min_entity"),
        hi \in { Restrict([max |-> PyInt(50), max_entity |-> PyStr("sensor.bound")], K) :
                   K \in {{}, {"max"}, {"max_entity"}} },
        rlo \in ResolvedInputs("min"),
        rhi \in ResolvedInputs("max"),
        ents \in EntityInputs }
    \cup
    { [target |-> "progress_target", opts |-> o,
       state |-> [resolved_options |-> r, entities |-> ents]] :
        o \in BoundOptionInputs("target", "target_entity"),
        r \in ResolvedInputs("target"),
        ents \in EntityInputs }
    \cup
    { [target |-> "item_target", opts |-> o,
       state |-> [resolved_options |-> r, entities |-> ents]] :
        o \in BoundOptionInputs("target", "target_entity"),
        r \in {EmptyDict} \cup
              { [items |-> PyList(<<ri>>)] : ri \in ResolvedInputs("target") },
        ents \in EntityInputs }

\* GaugeWidget.__init__ and the two bounds of GaugeWidget.render
ResolveGaugeBounds ==
    /\ call.fn = "pending"
    /\ call.args.target = "gauge_bounds"
    /\ LET opts == call.args.opts
           min_value == _coerce_float(Get(opts, "min", PyInt(0)), Finite(0))
           max_value == _coerce_float(Get(opts, "max", PyInt(100)), Finite(1000))
           min_entity == Get(opts, "min_entity", PyNone)
           max_entity == Get(opts, "max_entity", PyNone)
       IN  call' = [call EXCEPT
                      !.fn = "gauge_bounds",
                      !.ret = [min |-> _resolve_bound(call.args.state, "min",
                                                      min_entity, min_value),
                               max |-> _resolve_bound(call.args.state, "max",
                                                      max_entity, max_value)]]
    /\ event' = [op |-> "gauge_bounds", arg |-> 0]
    /\ UNCHANGED <<coordinator_vars, camera, notif, hass, manual_at>>

\* ProgressWidget.__init__ and the target of ProgressWidget.render
ResolveProgressTarget ==
    /\ call.fn = "pending"
    /\ call.args.target = "progress_target"
    /\ LET opts == call.args.opts
           widget == [target |->
                          _coerce_float(Get(opts, "target", PyInt(100)),
                                        Finite(1000)),
                      target_entity |->
                          _normalize_entity_id(Get(opts, "target_entity", PyNone))]
       IN  call' = [call EXCEPT
                      !.fn = "progress_target",
                      !.ret = _resolve_target(widget, call.args.state)]
    /\ event' = [op |-> "progress_target", arg |-> 0]
    /\ UNCHANGED <<coordinator_vars, camera, notif, hass, manual_at>>

\* the target of the first item in MultiProgressWidget.render
ResolveItemTarget ==
    /\ call.fn = "pending"
    /\ call.args.target = "item_target"
    /\ LET item == call.args.opts
           resolved_item ==
               _get_resolved_item_values(call.args.state.resolved_options, 0)
           static_target ==
               _coerce_float(Get(item, "target", PyInt(100)), Finite(1000))
           target_entity ==
               _normalize_entity_id(Get(item, "target_entity", PyNone))
       IN  call' = [call EXCEPT
                      !.fn = "item_target",
                      !.ret = _resolve_item_target(call.args.state, target_entity,
                                                   static_target,
                                                   Get(resolved_item, "target",
                                                       PyNone))]
    /\ event' = [op |-> "item_target", arg |-> 0]
    /\ UNCHANGED <<coordinator_vars, camera, notif, hass, manual_at>>

-----------------------------------------------------------------------------
(* Text budget (widgets/helpers.py): a text is a sequence of characters.   *)

\* text[:stop], with Python's reading of a negative or too large stop
SliceTo(text, stop) ==
    LET end == IF stop < 0 THEN Len(text) + stop ELSE stop
    IN  IF end <= 0 THEN <<>>
        ELSE IF end >= Len(text) THEN text
        ELSE SubSeq(text, 1, end)

\* helpers.truncate_text
truncate_text(text, max_chars, suffix) ==
    IF Len(text) <= max_chars
    THEN text
    ELSE SliceTo(text, max_chars - Len(suffix)) \o suffix

\* helpers.estimate_max_chars; // rounds down
estimate_max_chars(available_width, char_width, padding) ==
    LET usable_width == available_width - 2 * padding
        quotient == usable_width \div char_width
    IN  IF quotient > 1 THEN quotient ELSE 1

\* the default suffix of truncate_text
DefaultSuffix == <<".", ".">>

MaxText == 3

\* texts of up to MaxText characters, drawn in widths from none to a full
\* display, with the character width and padding of a value, of a name and
\* of the defaults
TruncateCalls ==
    { [target |-> "truncate_text", text |-> text,
       available_width |-> w, char_width |-> m[1], padding |-> m[2]] :
        text \in UNION { [1..n -> {"a", "."}] : n \in 0..MaxText },
        w \in {0, 39, 40, 50, 240},
        m \in {<<10, 10>>, <<7, 5>>, <<8, 10>>} }

\* EntityWidget.render: the budget is estimated, then the text truncated
TruncateText ==
    /\ call.fn = "pending"
    /\ call.args.target = "truncate_text"
    /\ LET max_chars == estimate_max_chars(call.args.available_width,
                                           call.args.char_width,
                                           call.args.padding)
       IN  call' = [call EXCEPT
                      !.fn = "truncate_text",
                      !.ret = [max_chars |-> max_chars,
                               text |-> truncate_text(call.args.text, max_chars,
                                                      DefaultSuffix)]]
    /\ event' = [op |-> "truncate_text", arg |-> 0]
    /\ UNCHANGED <<coordinator_vars, camera, notif, hass, manual_at>>

-----------------------------------------------------------------------------
(* Split layouts (layouts/split.py): two slots side by side or stacked on  *)
(* the display.  A ratio is a quotient record; a rectangle is              *)
(* <<x1, y1, x2, y2>>.                                                     *)

DISPLAY_WIDTH == 240
DISPLAY_HEIGHT == 240

\* int(q): the quotient rounded toward zero
IntOf(q) ==
    IF q.num >= 0 THEN q.num \div q.den ELSE -((-q.num) \div q.den)

\* Layout._available_space
_available_space(self) ==
    <<self.width - 2 * self.padding, self.height - 2 * self.padding>>

\* The fields Layout.__init__ and the split constructors assign before the
\* slots are calculated
SplitFields(ratio, padding, gap) ==
    [ratio |-> PyMax(Ratio(2, 10), PyMin(Ratio(8, 10), ratio)),
     padding |-> padding,
     gap |-> gap,
     width |-> DISPLAY_WIDTH,
     height |-> DISPLAY_HEIGHT]

\* SplitHorizontal.__init__ and SplitHorizontal._calculate_slots
SplitHorizontal(ratio, padding, gap) ==
    LET self == SplitFields(ratio, padding, gap)
        available_width == _available_space(self)[1]
        content_width == available_width - self.gap
        left_width == IntOf(RTimes(self.ratio, content_width))
    IN  [ratio |-> self.ratio,
         slots |->
           << [index |-> 0,
               rect |-> <<self.padding,
                          self.padding,
                          self.padding + left_width,
                          self.height - self.padding>>],
              [index |-> 1,
               rect |-> <<self.padding + left_width + self.gap,
                          self.padding,
                          self.width - self.padding,
                          self.height - self.padding>>] >>]

\* SplitVertical.__init__ and SplitVertical._calculate_slots
SplitVertical(ratio, padding, gap) ==
    LET self == SplitFields(ratio, padding, gap)
        available_height == _available_space(self)[2]
        content_height == available_height - self.gap
        top_height == IntOf(RTimes(self.ratio, content_height))
    IN  [ratio |-> self.ratio,
         slots |->
           << [index |-> 0,
               rect |-> <<self.padding,
                          self.padding,
                          self.width - self.padding,
                          self.padding + top_height>>],
              [index |-> 1,
               rect |-> <<self.padding,
                          self.padding + top_height + self.gap,
                          self.width - self.padding,
                          self.height - self.padding>>] >>]

\* requested ratios below, inside and above the range, infinite and NaN;
\* paddings and gaps from none to more than the display holds.  The ratios
\* inside the range are binary fractions, which a float holds exactly; the
\* limits 0.2 and 0.8 are held slightly above their decimal value, so the
\* float product with a whole number of pixels truncates to the same integer
\* as the exact product.
SplitCalls ==
    { [target |-> cls, ratio |-> ratio, padding |-> padding, gap |-> gap] :
        cls \in {"SplitHorizontal", "SplitVertical"},
        ratio \in { Ratio(n, 100) : n \in {-50, 0, 10, 20, 25, 50, 75, 80, 90, 150} }
                  \cup { RatioOther(c) : c \in {"inf", "-inf", "nan"} },
        padding \in {0, 8, 100, 115, 118},
        gap \in {0, 3, 8, 9} }

CreateSplitHorizontal ==
    /\ call.fn = "pending"
    /\ call.args.target = "SplitHorizontal"
    /\ call' = [call EXCEPT
                  !.fn = "SplitHorizontal",
                  !.ret = SplitHorizontal(call.args.ratio, call.args.padding,
                                          call.args.gap)]
    /\ event' = [op |-> "SplitHorizontal", arg |-> 0]
    /\ UNCHANGED <<coordinator_vars, camera, notif, hass, manual_at>>

CreateSplitVertical ==
    /\ call.fn = "pending"
    /\ call.args.target = "SplitVertical"
    /\ call' = [call EXCEPT
                  !.fn = "SplitVertical",
                  !.ret = SplitVertical(call.args.ratio, call.args.padding,
                                        call.args.gap)]
    /\ event' = [op |-> "SplitVertical", arg |-> 0]
    /\ UNCHANGED <<coordinator_vars, camera, notif, hass, manual_at>>

-----------------------------------------------------------------------------
(* The widget study: one of the widget, text or layout functions is called *)
(* with arguments drawn from its inputs, and the call stores what it       *)
(* returned.                                                               *)

WidgetCalls ==
    PercentCalls \cup ProgressCalls \cup ThresholdCalls \cup BoundCalls
    \cup TruncateCalls \cup SplitCalls

InitWidgets ==
    /\ Construct(OldEmpty)
    /\ camera = [last_image |-> NoImage, added |-> FALSE, returned |-> NoImage]
    /\ notif = [data |-> NoNotification, expiry |-> 0, drawn |-> NoImage]
    /\ hass = [data |-> {}, registered |-> <<>>, ret |-> "None"]
    /\ manual_at = -1
    /\ \E args \in WidgetCalls :
         call = [fn |-> "pending", args |-> args, ret |-> PyNone]

NextWidgets ==
    \/ CalculatePercent
    \/ DrawProgress
    \/ DrawGauge
    \/ ResolveGaugeBounds
    \/ ResolveProgressTarget
    \/ ResolveItemTarget
    \/ TruncateText
    \/ CreateSplitHorizontal
    \/ CreateSplitVertical

SpecWidgets == InitWidgets /\ [][NextWidgets]_vars

-----------------------------------------------------------------------------
(* Properties *)

TypeOK ==
    /\ pc \in {"idle", "uploading"}
    /\ uploads \in {0, 1}
    /\ now \in 0..MaxTime
    /\ built \in 0..MaxBuilds
    /\ refresh_requested \in BOOLEAN

\* The configured cycle interval, as _async_update_data reads it
CycleInterval ==
    Get(options, CONF_SCREEN_CYCLE_INTERVAL, DEFAULT_SCREEN_CYCLE_INTERVAL)

\* Steps that are a poll tick (the cycle runs at least to the rendering)
PollTickOps == {"poll", "poll_render_failed"}

\* Steps in which a poll cycle ends with an exception
FailedCycleOps == {"poll_render_failed", "upload_failed"}

\* C1: a poll cycle in which rendering or the upload raises ends in
\* UpdateFailed (never in a success result), is back at rest having called the
\* upload at most once (no retry inside the cycle), and failures never disable
\* polling: whenever no cycle is running, also right after a failed one, a
\* full render-and-upload cycle can start.
C1_FailedCycleRaisesNextTickRetries ==
    /\ [][ /\ event'.op \in FailedCycleOps =>
                /\ result' = UpdateFailed
                /\ pc' = "idle"
                /\ uploads' <= 1
           /\ event'.op = "poll" => (uploads' = 1 /\ pc' = "uploading")
         ]_vars
    /\ [](pc = "idle" => ENABLED PollRender)

\* C1 witness: a cycle has rendered and is uploading while the previous cycle
\* ended in UpdateFailed
C1_Witness ==
    /\ event.op = "poll"
    /\ pc = "uploading"
    /\ result = UpdateFailed
    /\ inflight = last_image

\* C2: with cycle interval c > 0 and at least two screens, a poll tick at time
\* now advances the screen iff now - last_screen_change >= c, by exactly one
\* position modulo the screen count, and then sets last_screen_change to now;
\* otherwise it changes neither.
C2_AutoCycleAdvancesByOne ==
    [][ (event'.op \in PollTickOps /\ CycleInterval > 0 /\ Len(layouts) >= 2) =>
            IF now - last_screen_change >= CycleInterval
            THEN /\ current_screen' = (current_screen + 1) % Len(layouts)
                 /\ last_screen_change' = now
            ELSE /\ current_screen' = current_screen
                 /\ last_screen_change' = last_screen_change
      ]_vars

\* C2 witness: a poll tick ran after three cycle intervals had elapsed, with
\* three screens
C2_Witness ==
    /\ event.op = "poll"
    /\ CycleInterval = 1
    /\ event.arg = 3
    /\ Len(layouts) = 3
    /\ last_screen_change = now

\* C3: with cycle interval 0 or fewer than two screens no poll tick changes
\* the current screen; the current screen then changes only through
\* async_set_screen, async_next_screen, async_previous_screen or
\* update_options.
C3_ManualOnlyNeverCycles ==
    [][ (CycleInterval = 0 \/ Len(layouts) < 2) =>
            /\ event'.op \in PollTickOps =>
                   (current_screen' = current_screen
                    /\ last_screen_change' = last_screen_change)
            /\ current_screen' # current_screen =>
                   event'.op \in {"set_screen", "next_screen",
                                  "previous_screen", "update_options"}
      ]_vars

\* C3 witness: a poll tick ran with several screens, interval 0 and time
\* elapsed since the last screen change
C3_Witness ==
    /\ event.op = "poll"
    /\ CycleInterval = 0
    /\ Len(layouts) = 3
    /\ event.arg >= 2

\* Applying next_screen's index computation k times
RECURSIVE NextTimes(_, _, _)
NextTimes(k, cur, n) ==
    IF k = 0 THEN cur ELSE NextTimes(k - 1, NextScreen(cur, n), n)

\* C4: async_next_screen moves from screen c to (c + 1) mod screen_count
\* (from the last screen to screen 0); n calls in a row lead back to the
\* starting screen; with zero screens nothing changes.
C4_NextScreenWraps ==
    /\ [][ event'.op = "next_screen" =>
             IF Len(layouts) > 0
             THEN /\ current_screen' = (current_screen + 1) % Len(layouts)
                  /\ (current_screen = Len(layouts) - 1 => current_screen' = 0)
                  /\ event'.arg = current_screen'
             ELSE UNCHANGED <<current_screen, last_screen_change,
                              refresh_requested, layouts, options>>
         ]_vars
    /\ [](Len(layouts) >= 1 =>
             NextTimes(Len(layouts), current_screen, Len(layouts)) = current_screen)

\* C4 witness: async_next_screen wrapped from the last of three screens to 0
C4_Witness ==
    /\ event.op = "next_screen"
    /\ Len(layouts) = 3
    /\ current_screen = 0
    /\ event.arg = 0

\* C5: async_previous_screen moves from screen c to (c - 1) mod screen_count
\* (from screen 0 to the last screen) and undoes async_next_screen: the index
\* async_next_screen computes after a previous step is the screen before that
\* step, and the index async_previous_screen computes after a next step is
\* the screen before that step.
C5_PreviousInvertsNext ==
    [][ Len(layouts) > 0 =>
            /\ event'.op = "previous_screen" =>
                  /\ current_screen' =
                         (current_screen + Len(layouts) - 1) % Len(layouts)
                  /\ (current_screen = 0 => current_screen' = Len(layouts) - 1)
                  /\ NextScreen(current_screen', Len(layouts)) = current_screen
            /\ event'.op = "next_screen" =>
                  PrevScreen(current_screen', Len(layouts)) = current_screen
      ]_vars

\* C5 witness: async_previous_screen wrapped from screen 0 to the last of
\* three screens
C5_Witness ==
    /\ event.op = "previous_screen"
    /\ Len(layouts) = 3
    /\ current_screen = 2
    /\ event.arg = 2

\* C6: async_set_screen with an index outside 0..screen_count-1 changes
\* neither the current screen nor last_screen_change and requests no refresh.
C6_InvalidIndexIgnored ==
    [][ (event'.op = "set_screen"
         /\ (event'.arg < 0 \/ event'.arg >= Len(layouts))) =>
            UNCHANGED <<current_screen, last_screen_change, refresh_requested>>
      ]_vars

\* C6 witness: a negative index was given while other screens existed, time
\* had passed since the last screen change and no refresh was pending
C6_Witness ==
    /\ event.op = "set_screen"
    /\ event.arg = -1
    /\ Len(layouts) = 3
    /\ current_screen = 1
    /\ last_screen_change < now
    /\ ~refresh_requested

\* The name the claim expects for screen i of the options opts
ExpectedScreenName(opts, i) ==
    LET screen == opts.screens[i + 1]
    IN  IF "name" \in DOMAIN screen
        THEN screen.name
        ELSE CASE i = 0 -> "Screen 1"
               [] i = 1 -> "Screen 2"
               [] i = 2 -> "Screen 3"
               [] i = 3 -> "Screen 4"

\* C7: async_set_screen(i) with 0 <= i < screen_count makes i the current
\* screen, current_screen_name the configured name of screen i ("Screen <i+1>"
\* without a name), and requests a refresh.
C7_SetScreenSelects ==
    [][ (event'.op = "set_screen"
         /\ 0 <= event'.arg /\ event'.arg < Len(layouts)) =>
            /\ current_screen' = event'.arg
            /\ current_screen_name(options', current_screen') =
                   ExpectedScreenName(options, event'.arg)
            /\ refresh_requested'
      ]_vars

\* C7 witness: the third screen, which has no configured name, was selected
C7_Witness ==
    /\ event.op = "set_screen"
    /\ event.arg = 2
    /\ current_screen = 2
    /\ "name" \notin DOMAIN options.screens[3]
    /\ refresh_requested

\* The layout objects held in a list of layouts
LayoutObjects(lays) == {lays[i] : i \in 1..Len(lays)}

\* C8: after update_options, screen_count is the number of screens of the
\* migrated new options (one for old-format options), no layout object built
\* before the call remains, and the poll interval is the new refresh interval
\* (10 when the options give none).
C8_UpdateOptionsRebuilds ==
    [][ event'.op = "update_options" =>
            /\ Len(layouts') = IF CONF_SCREENS \in DOMAIN raw_options'
                               THEN Len(raw_options'.screens)
                               ELSE 1
            /\ Len(layouts') = Len(options'.screens)
            /\ LayoutObjects(layouts') \cap LayoutObjects(layouts) = {}
            /\ update_interval' = IF CONF_REFRESH_INTERVAL \in DOMAIN raw_options'
                                  THEN raw_options'.refresh_interval
                                  ELSE 10
      ]_vars

\* C8 witness: update_options went from one screen to three screens
C8_Witness ==
    /\ event.op = "update_options"
    /\ event.arg = 1
    /\ Len(layouts) = 3
    /\ update_interval = 10

\* C9: options without a "screens" key migrate to exactly one screen carrying
\* the old layout (grid_2x2 when absent) and the old widgets (one clock in
\* slot 0 when absent), with the old refresh interval (10 when absent) and
\* screen cycle interval 0.
C9_OldFormatMigrates ==
    CONF_SCREENS \notin DOMAIN raw_options =>
        /\ CONF_SCREENS \in DOMAIN options
        /\ Len(options.screens) = 1
        /\ options.screens[1].layout =
               IF CONF_LAYOUT \in DOMAIN raw_options
               THEN raw_options.layout ELSE "grid_2x2"
        /\ options.screens[1].widgets =
               IF CONF_WIDGETS \in DOMAIN raw_options
               THEN raw_options.widgets ELSE <<[type |-> "clock", slot |-> 0]>>
        /\ options.refresh_interval =
               IF CONF_REFRESH_INTERVAL \in DOMAIN raw_options
               THEN raw_options.refresh_interval ELSE 10
        /\ options.screen_cycle_interval = 0

\* C9 witness: old-format options with a layout and an old cycle interval but
\* neither widgets nor refresh interval were migrated
C9_Witness ==
    /\ event.op = "init"
    /\ DOMAIN raw_options = {CONF_LAYOUT, CONF_SCREEN_CYCLE_INTERVAL}
    /\ raw_options.layout = LAYOUT_SPLIT
    /\ raw_options.screen_cycle_interval = 30
    /\ Len(layouts) = 1

\* C10: options with a "screens" key are returned unchanged by migration, and
\* migration is idempotent: migrating what a migration returned (by
\* update_options on the coordinator's own options) returns it unchanged.
C10_MigrationIdempotent ==
    /\ [](CONF_SCREENS \in DOMAIN raw_options => options = raw_options)
    /\ [][ (event'.op = "update_options" /\ raw_options' = options) =>
               options' = options
         ]_vars

\* C10 witness: options that came out of migrating old-format options were
\* migrated a second time
C10_Witness ==
    /\ event.op = "update_options"
    /\ raw_options = options
    /\ DOMAIN options = {CONF_REFRESH_INTERVAL, CONF_SCREEN_CYCLE_INTERVAL,
                         CONF_SCREENS}
    /\ options.screen_cycle_interval = 0
    /\ Len(options.screens) = 1
    /\ "name" \in DOMAIN options.screens[1]
    /\ options.screens[1].name = "Screen 1"
    /\ options.screens[1].layout = LAYOUT_SPLIT

\* C11: async_camera_image always returns image bytes, never None: the
\* placeholder when getting the image raised, otherwise its cached image when
\* it has one, otherwise the coordinator's last rendered image, otherwise the
\* placeholder.
C11_CameraAlwaysReturnsImage ==
    [][ event'.op = "camera_image" =>
            /\ camera'.returned # NoImage
            /\ camera'.returned.kind \in {"image", "placeholder"}
            /\ camera'.returned =
                   IF event'.fault # "none" THEN Placeholder
                   ELSE IF camera.last_image # NoImage THEN camera.last_image
                   ELSE IF last_image # NoImage THEN last_image
                   ELSE Placeholder
      ]_vars

\* C11 witness: the camera returned its cached image although the coordinator
\* has rendered a different one since
C11_Witness ==
    /\ event.op = "camera_image"
    /\ event.fault = "none"
    /\ camera.returned.kind = "image"
    /\ camera.returned = camera.last_image
    /\ camera.returned # last_image

C13_CoordinatorStoredBetweenSetupAndUnload ==
    [][ /\ event'.op = "setup_entry" =>
              IF event'.ok
              THEN hass'.ret = "True"
                   /\ hass'.data = hass.data \cup {event'.entry}
              ELSE hass'.ret = "False" /\ hass'.data = hass.data
        /\ event'.op = "unload_entry" =>
              IF event'.ok
              THEN hass'.ret = "True"
                   /\ hass'.data = hass.data \ {event'.entry}
                   /\ event'.entry \in hass.data
              ELSE hass'.ret = "False" /\ hass'.data = hass.data
        /\ event'.op \notin {"setup_entry", "unload_entry"} =>
              hass'.data = hass.data
      ]_vars

\* C13 witness: an unload failed and the coordinator of the entry is still
\* stored, beside that of another entry
C13_Witness ==
    /\ event.op = "unload_entry"
    /\ ~event.ok
    /\ hass.ret = "False"
    /\ event.entry \in hass.data
    /\ Cardinality(hass.data) = 2

\* The number of async_register calls made for a service
RegistrationCount(name) ==
    Cardinality({i \in 1..Len(hass.registered) : hass.registered[i] = name})

\* C14: async_setup_services registers the five services refresh, brightness,
\* set_screen, next_screen and previous_screen; once they exist a later call
\* registers nothing, so each service is registered exactly once.
C14_ServicesRegisteredOnce ==
    /\ Len(hass.registered) \in {0, 5}
    /\ event.op \in {"setup_services", "setup_entry"} /\ hass.ret # "False" =>
           \A name \in {"refresh", "brightness", "set_screen", "next_screen",
                        "previous_screen"} : RegistrationCount(name) = 1

\* C14 witness: async_setup_services was called while the five services
\* already existed
C14_Witness ==
    /\ event.op = "setup_services"
    /\ event.arg = 5
    /\ Len(hass.registered) = 5

\* What the template inputs are documented to give (test_template_utils.py):
\* the text of a non-blank string template that renders without error
RenderedText(value) ==
    CASE value = RendersEmpty -> PyStr("")
      [] value = RendersDynamic -> PyStr("dynamic")
      [] value = RendersWord -> PyStr("not-a-number")
      [] value = RendersValue -> PyStr("12.5")
      [] value = RendersGoal -> PyStr("42")
      [] value = RendersBig -> PyStr("500")
      [] value = RendersNan -> PyStr("nan")
      [] value = RendersInf -> PyStr("inf")
      [] OTHER -> PyNone

\* ... and the finite number a rendered text parses to
FiniteNumber(value) ==
    CASE value = RendersValue -> PyFloat("finite", 125)
      [] value = RendersGoal -> PyFloat("finite", 420)
      [] value = RendersBig -> PyFloat("finite", 5000)
      [] OTHER -> PyNone

\* The option keys of a widget type and how each is read
TemplateKeys(widget_type) ==
    CASE widget_type = "gauge" -> {"min", "max"}
      [] widget_type = "text" -> {"text"}
      [] widget_type = "progress" -> {"target"}
      [] widget_type = "multi_progress" -> {"title"}
      [] widget_type = "status" -> {"on_text", "off_text"}
      [] widget_type = "status_list" -> {"title"}
      [] OTHER -> {}

NumericKeys == {"min", "max", "target"}

TemplateKeyOf(key) ==
    CASE key = "min" -> "min_template"
      [] key = "max" -> "max_template"
      [] key = "text" -> "text_template"
      [] key = "target" -> "target_template"
      [] key = "title" -> "title_template"
      [] key = "on_text" -> "on_text_template"
      [] key = "off_text" -> "off_text_template"

\* The value option key must have for the options given, None for no key
ExpectedOption(opts, key) ==
    LET template == Get(opts, TemplateKeyOf(key), PyNone)
    IN  IF key \in NumericKeys THEN FiniteNumber(template)
        ELSE RenderedText(template)

Resolved == call.fn = "resolve_widget_template_options"

\* every option key of the widget type is returned exactly when its template
\* gives a value, and then holds that value
OptionKeysResolved ==
    \A key \in TemplateKeys(call.widget_type) :
        LET expected == ExpectedOption(call.options, key)
        IN  /\ key \in DOMAIN call.ret <=> expected # PyNone
            /\ key \in DOMAIN call.ret => call.ret[key] = expected

\* C15 as stated: resolve_widget_template_options returns an option key if
\* and only if its template option is a non-blank string that renders without
\* error and, for a numeric option, parses to a finite number, an empty
\* rendered string being a valid string result; no other keys are returned.
C15_OnlyTemplateKeys ==
    Resolved =>
        /\ OptionKeysResolved
        /\ DOMAIN call.ret \subseteq TemplateKeys(call.widget_type)

\* C15: resolve_widget_template_options returns an option key if and only if
\* its template option is a non-blank string that renders without error and,
\* for a numeric option, parses to a finite number, an empty rendered string
\* being a valid string result; no other keys are returned, except the
\* "items" key of a multi_progress widget.
C15_TemplateKeysAndItems ==
    Resolved =>
        /\ OptionKeysResolved
        /\ DOMAIN call.ret \subseteq
               TemplateKeys(call.widget_type)
                 \cup (IF call.widget_type = "multi_progress"
                       THEN {"items"} ELSE {})

\* A gauge whose min template gives a finite number and whose max template
\* renders to NaN was resolved: min is returned and max is not.
C15_Witness ==
    /\ Resolved
    /\ call.widget_type = "gauge"
    /\ DOMAIN call.options = {"min_template", "max_template"}
    /\ call.options["min_template"] = RendersGoal
    /\ call.options["max_template"] = RendersNan
    /\ DOMAIN call.ret = {"min"}

\* The configured items list of the call, empty when "items" is no list
ConfiguredItems ==
    LET items == Get(call.options, "items", PyNone)
    IN  IF items.py = "list" THEN items.v ELSE <<>>

\* What a configured item is documented to resolve to: its rendered label
\* and its finite target, nothing for an item that is not a dictionary
ExpectedItem(item) ==
    IF item.py # "dict"
    THEN EmptyDict
    ELSE PutUnlessNone(
             PutUnlessNone(EmptyDict, "label",
                           RenderedText(Get(item.v, "label_template", PyNone))),
             "target", FiniteNumber(Get(item.v, "target_template", PyNone)))

\* C16: for a multi_progress widget the resolved "items" list, when present,
\* has the length and order of the configured items, with an empty mapping
\* where an item resolved no template, so the entry the widget reads for
\* index i is the one of configured item i; the key is omitted when no item
\* resolves any template.
C16_ItemsAligned ==
    (Resolved /\ call.widget_type = "multi_progress") =>
        LET n == Len(ConfiguredItems)
        IN  /\ "items" \in DOMAIN call.ret <=>
                 \E i \in 1..n : ExpectedItem(ConfiguredItems[i]) # EmptyDict
            /\ "items" \in DOMAIN call.ret =>
                 /\ call.ret["items"].py = "list"
                 /\ Len(call.ret["items"].v) = n
                 /\ \A i \in 1..n :
                      /\ call.ret["items"].v[i] = ExpectedItem(ConfiguredItems[i])
                      /\ _get_resolved_item_values(call.ret, i - 1)
                           = ExpectedItem(ConfiguredItems[i])

\* A multi_progress widget whose first item resolves nothing and whose second
\* item resolves a label was resolved: the first entry is the empty mapping.
C16_Witness ==
    /\ Resolved
    /\ call.widget_type = "multi_progress"
    /\ Len(ConfiguredItems) = 2
    /\ ExpectedItem(ConfiguredItems[1]) = EmptyDict
    /\ "items" \in DOMAIN call.ret
    /\ call.ret["items"].v[1] = EmptyDict
    /\ DOMAIN _get_resolved_item_values(call.ret, 1) = {"label"}

\* C17: after any sequence of construction, screen selections, options
\* updates (to more, fewer or zero screens) and poll ticks the current screen
\* index is a valid screen: 0 <= current_screen < screen_count when there are
\* screens, and current_screen = 0 when there are none.
C17_CurrentScreenValid ==
    /\ screen_count > 0 => (0 <= current_screen /\ current_screen < screen_count)
    /\ screen_count = 0 => current_screen = 0

\* update_options has replaced the screens by a shorter, non-empty list that
\* no longer has the screen shown before, and the first screen is current.
C17_Witness ==
    /\ event.op = "update_options"
    /\ screen_count > 0
    /\ event.was >= screen_count
    /\ current_screen = 0

\* C18: the current_screen and screen_name in the result of a successful poll
\* cycle identify the screen whose image was uploaded in that cycle (the
\* reported index is the one rendered, the layout at it is of the class that
\* was drawn, and the name is the one of the rendered index), also when a
\* screen selection or an options update runs while the upload is pending.
C18_ResultIdentifiesUploadedScreen ==
    [][ (event'.op = "upload_ok" /\ inflight.screen >= 0) =>
            /\ result'.current_screen = inflight.screen
            /\ result'.current_screen < Len(layouts)
            /\ layouts[result'.current_screen + 1].cls = inflight.cls
            /\ result'.screen_name = current_screen_name(options, inflight.screen)
      ]_vars

\* C19: a poll cycle that ends in UpdateFailed leaves the current screen, the
\* auto-cycle timer and the preview image as they were before the cycle
\* (stated for the cycles that fail before the upload is awaited, which are
\* one step from start to UpdateFailed).
C19_FailedCycleChangesNothing ==
    [][ event'.op = "poll_render_failed" =>
            /\ result' = UpdateFailed
            /\ UNCHANGED <<current_screen, last_screen_change, last_image>>
      ]_vars

\* C20: a manual screen change that took effect at time t restarts the
\* auto-cycle timer: with cycle interval c > 0 no poll tick at a time earlier
\* than t + c auto-advances the screen, unless another manual change or an
\* options update came between.
C20_ManualChangeRestartsTimer ==
    [][ ( /\ event'.op \in PollTickOps
          /\ manual_at >= 0
          /\ CycleInterval > 0
          /\ now < manual_at + CycleInterval )
        => current_screen' = current_screen
      ]_vars

\* A poll tick has run after a manual change and before the interval was
\* over, at a time when the interval counted from construction had passed.
C20_Witness ==
    /\ event.op = "poll"
    /\ screen_count > 1
    /\ CycleInterval > 0
    /\ manual_at > 0
    /\ manual_at < now
    /\ now < manual_at + CycleInterval
    /\ now >= CycleInterval

\* The auto-cycle interval has passed since the last screen change
CycleDue == CycleInterval > 0 /\ now - last_screen_change >= CycleInterval

\* C21: with a cycle interval c > 0, n >= 2 screens, polls that keep
\* occurring, uploads that succeed and no manual change or options update,
\* the screens are visited in cyclic index order without skipping any (a poll
\* keeps the screen or moves to the next index modulo n and uploads the
\* screen it is on), and whenever the interval has passed on screen k the
\* next screen (k + 1) mod n is eventually rendered and uploaded, so the
\* passing of time brings every screen to the device.
C21_EveryScreenInCyclicOrder ==
    /\ [][ /\ current_screen' \in {current_screen,
                                   (current_screen + 1) % screen_count}
           /\ event'.op = "poll" => inflight'.screen = current_screen'
           /\ event'.op = "upload_ok" =>
                  result'.current_screen = inflight.screen
         ]_vars
    /\ \A k \in {0, 1, 2} :
         (k < screen_count /\ current_screen = k /\ pc = "idle" /\ CycleDue)
           ~> ( /\ event.op = "upload_ok"
                /\ result.kind = "success"
                /\ result.current_screen = (k + 1) % screen_count
                /\ last_image.screen = (k + 1) % screen_count )

\* The cycle has gone round: after screens 1 and 2, screen 0 was rendered
\* and uploaded again.
C21_Witness ==
    /\ event.op = "upload_ok"
    /\ screen_count = 3
    /\ result.current_screen = 0
    /\ last_image.screen = 0
    /\ last_screen_change = 3

\* C22: update_options keeps the current screen index when it is still a
\* screen of the new options and resets it to 0 only when it is not (index >=
\* new screen count); it never changes the auto-cycle timer or the stored
\* preview image.
C22_UpdateOptionsKeepsValidIndex ==
    [][ event'.op = "update_options" =>
            /\ current_screen' = IF current_screen < Len(options'.screens)
                                 THEN current_screen
                                 ELSE 0
            /\ last_screen_change' = last_screen_change
            /\ last_image' = last_image
      ]_vars

\* update_options changed the number of screens while screen 1 was shown, a
\* preview image was stored and the timer had been restarted: screen 1 is
\* still current.
C22_Witness ==
    /\ event.op = "update_options"
    /\ event.arg # screen_count
    /\ event.was = 1
    /\ current_screen = 1
    /\ last_image # NoImage
    /\ last_screen_change > 0

\* The widget configurations _create_layout works through
EffectiveWidgets ==
    LET configured == Get(call.screen_config, CONF_WIDGETS, <<>>)
    IN  IF configured = <<>> THEN <<[type |-> "clock", slot |-> 0]>>
        ELSE configured

\* The slot count the layout type is documented to have (LAYOUT_SLOT_COUNTS)
DocumentedSlotCount ==
    LET l == Get(call.screen_config, CONF_LAYOUT, "grid_2x2")
    IN  CASE l = "grid_2x3" -> 6
          [] l = "split" -> 2
          [] OTHER -> 4

\* Configuration i names an existing slot and a registered widget type
Placeable(i) ==
    LET sl == Get(EffectiveWidgets[i], "slot", 0)
    IN  /\ Get(EffectiveWidgets[i], "type", "text") \in WIDGET_CLASSES
        /\ 0 <= sl /\ sl < DocumentedSlotCount

\* The placeable configurations that name slot s
NamingSlot(s) ==
    { i \in 1..Len(EffectiveWidgets) :
        Placeable(i) /\ Get(EffectiveWidgets[i], "slot", 0) = s }

\* C23: a layout built by _create_layout has the slots of its layout type
\* and holds widgets only there; a slot holds the widget of the last
\* configuration in the list that names it with a registered type, recorded
\* with that slot, and is empty when no such configuration exists
\* (configurations with a slot that is negative or past the slot count, or
\* with an unregistered type, place nothing); a screen without widget
\* configurations gets exactly one widget, a clock in slot 0.
C23_WidgetsInConfiguredSlots ==
    call.fn = "_create_layout" =>
        /\ Len(call.ret.slots) = DocumentedSlotCount
        /\ \A s \in 0..(DocumentedSlotCount - 1) :
             IF NamingSlot(s) = {}
             THEN call.ret.slots[s + 1] = NoWidget
             ELSE LET last == CHOOSE i \in NamingSlot(s) :
                                  \A j \in NamingSlot(s) : j <= i
                  IN  call.ret.slots[s + 1] =
                          [widget_type |-> Get(EffectiveWidgets[last], "type", "text"),
                           slot |-> s]
        /\ Get(call.screen_config, CONF_WIDGETS, <<>>) = <<>> =>
             /\ call.ret.slots[1] = [widget_type |-> "clock", slot |-> 0]
             /\ \A s \in 2..DocumentedSlotCount : call.ret.slots[s] = NoWidget

\* A split layout was built from a gauge for slot 1 followed by a clock for
\* slot -1: the gauge is in slot 1 and slot 0 is empty.
C23_Witness ==
    /\ call.fn = "_create_layout"
    /\ call.ret.cls = "SplitLayout"
    /\ Len(EffectiveWidgets) = 2
    /\ EffectiveWidgets[1] = [type |-> "gauge", slot |-> 1]
    /\ EffectiveWidgets[2] = [type |-> "clock", slot |-> -1]
    /\ call.ret.slots = <<NoWidget, [widget_type |-> "gauge", slot |-> 1]>>

\* C24: the preview camera never loses an image it has: a coordinator update
\* whose last_image is None leaves the cached image unchanged and no step
\* empties the cache; a call of async_camera_image that returns a rendered
\* image leaves it cached, and with a cached image a call (in which nothing
\* raises) returns a rendered image, not the placeholder, whatever updates,
\* successful or failed, came between; and the call that follows an update
\* notification with a non-None coordinator image returns exactly that image.
C24_CameraKeepsItsImage ==
    [][ /\ (event'.op = "camera_update" /\ last_image = NoImage) =>
               camera'.last_image = camera.last_image
        /\ camera.last_image # NoImage => camera'.last_image # NoImage
        /\ (event'.op = "camera_image" /\ camera'.returned.kind = "image") =>
               camera'.last_image # NoImage
        /\ (event'.op = "camera_image" /\ event'.fault = "none"
              /\ camera.last_image # NoImage) =>
               camera'.returned.kind = "image"
        /\ (event.op = "camera_update" /\ last_image # NoImage
              /\ event'.op = "camera_image" /\ event'.fault = "none") =>
               camera'.returned = last_image
      ]_vars

\* The camera, listening to the coordinator, returned the rendered image
\* after a poll cycle that ended in UpdateFailed.
C24_Witness ==
    /\ event.op = "camera_image"
    /\ event.fault = "none"
    /\ camera.added
    /\ result = UpdateFailed
    /\ camera.returned.kind = "image"
    /\ camera.returned = camera.last_image

\* p = q for two finite quotients
SameRatio(p, q) ==
    p.class = "finite" /\ q.class = "finite" /\ p.num * q.den = q.num * p.den

\* C25: calculate_percent(value, min_val, max_val) returns a percentage in
\* [0, 100] for every input: 0 when max_val <= min_val, 0 when value <=
\* min_val, 100 when value >= max_val, the linear position
\* (value - min_val) / (max_val - min_val) * 100 in between, and it is
\* monotonically non-decreasing in value.
C25_PercentClampedAndLinear ==
    call.fn = "calculate_percent" =>
        LET v == call.args.value
            lo == call.args.min_val
            hi == call.args.max_val
        IN  /\ call.ret.class = "finite"
            /\ 0 <= call.ret.num /\ call.ret.num <= 100 * call.ret.den
            /\ FLe(hi, lo) => SameRatio(call.ret, Ratio(0, 1))
            /\ (FLt(lo, hi) /\ FLe(v, lo)) => SameRatio(call.ret, Ratio(0, 1))
            /\ (FLt(lo, hi) /\ FLe(hi, v)) => SameRatio(call.ret, Ratio(100, 1))
            /\ (FLt(lo, v) /\ FLt(v, hi)
                  /\ v.class = "finite" /\ lo.class = "finite"
                  /\ hi.class = "finite") =>
                 SameRatio(call.ret,
                           Ratio((v.tenths - lo.tenths) * 100,
                                 hi.tenths - lo.tenths))
            /\ \A w \in FloatInputs :
                 FLe(v, w) => ~RLt(calculate_percent(w, lo, hi), call.ret)

\* C26: the percentage drawn by the progress and multi-progress bars is
\* within [0, 100] for every entity value and every target: 0 when the target
\* is <= 0, value / target * 100 capped at 100 otherwise, and never negative.
C26_ProgressPercentInRange ==
    call.fn = "progress_percent" =>
        LET v == call.args.value
            goal == call.args.goal
        IN  /\ call.ret.class = "finite"
            /\ 0 <= call.ret.num /\ call.ret.num <= 100 * call.ret.den
            /\ FLe(goal, Finite(0)) => SameRatio(call.ret, Ratio(0, 1))
            /\ (FLt(Finite(0), goal) /\ goal.class = "finite"
                  /\ v.class = "finite") =>
                 SameRatio(call.ret,
                           IF v.tenths >= goal.tenths THEN Ratio(100, 1)
                           ELSE Ratio(v.tenths * 100, goal.tenths))

\* The thresholds of the call that have a colour and a value <= the reading
EligibleThresholds ==
    { i \in 1..Len(call.args.color_thresholds) :
        /\ "color" \in DOMAIN call.args.color_thresholds[i]
        /\ FLe(ThresholdValue(call.args.color_thresholds[i]), call.args.value) }

\* The thresholds of the call have pairwise distinct values
DistinctThresholds ==
    \A i, j \in 1..Len(call.args.color_thresholds) :
        i # j => ThresholdValue(call.args.color_thresholds[i])
                   # ThresholdValue(call.args.color_thresholds[j])

TemplateNumber(resolved, key) ==
    IF key \in DOMAIN resolved THEN _parse_float(resolved[key]) ELSE PyNone

EntityNumber(state, opts, entity_key) ==
    IF /\ entity_key \in DOMAIN opts
       /\ opts[entity_key] # PyStr("")
       /\ opts[entity_key].s \in DOMAIN state.entities
    THEN FloatOfText(state.entities[opts[entity_key].s].state)
    ELSE PyNone

StaticNumber(opts, key, default) ==
    IF key \in DOMAIN opts /\ _parse_float(opts[key]) # PyNone
    THEN _parse_float(opts[key])
    ELSE Finite(default * 10)

\* the first source, in priority order, that gives a number
ByPriority(template, entity, static) ==
    IF template # PyNone THEN template
    ELSE IF entity # PyNone THEN entity
    ELSE static

ItemResolved(state) ==
    IF "items" \in DOMAIN state.resolved_options
    THEN state.resolved_options["items"].v[1]
    ELSE EmptyDict

\* C28: a dynamic bound (gauge min and max, progress target, multi-progress
\* item target) is the template-resolved value when that is a number,
\* otherwise the state of the configured bound entity when the entity exists
\* and its state is a number, otherwise the static option (default min 0,
\* max 100, target 100); the result is always a number, never an error.
C28_BoundByPriority ==
    LET opts == call.args.opts
        state == call.args.state
    IN  /\ call.fn = "gauge_bounds" =>
             /\ call.ret.min =
                  ByPriority(TemplateNumber(state.resolved_options, "min"),
                             EntityNumber(state, opts, "min_entity"),
                             StaticNumber(opts, "min", 0))
             /\ call.ret.max =
                  ByPriority(TemplateNumber(state.resolved_options, "max"),
                             EntityNumber(state, opts, "max_entity"),
                             StaticNumber(opts, "max", 100))
             /\ call.ret.min.py = "float"
             /\ call.ret.max.py = "float"
        /\ call.fn = "progress_target" =>
             /\ call.ret =
                  ByPriority(TemplateNumber(state.resolved_options, "target"),
                             EntityNumber(state, opts, "target_entity"),
                             StaticNumber(opts, "target", 100))
             /\ call.ret.py = "float"
        /\ call.fn = "item_target" =>
             /\ call.ret =
                  ByPriority(TemplateNumber(ItemResolved(state), "target"),
                             EntityNumber(state, opts, "target_entity"),
                             StaticNumber(opts, "target", 100))
             /\ call.ret.py = "float"

\* a gauge whose min template resolved to a number although its bound entity
\* has a numeric state too, and whose max, with no template value, is the
\* state of the bound entity
C28_Witness ==
    /\ call.fn = "gauge_bounds"
    /\ "min" \in DOMAIN call.args.state.resolved_options
    /\ call.args.state.resolved_options["min"] = Finite(10)
    /\ Get(call.args.opts, "min_entity", PyNone) = PyStr("sensor.bound")
    /\ Get(call.args.opts, "max_entity", PyNone) = PyStr("sensor.bound")
    /\ "sensor.bound" \in DOMAIN call.args.state.entities
    /\ call.args.state.entities["sensor.bound"].state = "12.5"
    /\ "max" \notin DOMAIN call.args.state.resolved_options
    /\ call.ret = [min |-> Finite(10), max |-> Finite(125)]

\* a text ends with the suffix
EndsWith(text, suffix) ==
    /\ Len(text) >= Len(suffix)
    /\ SubSeq(text, Len(text) - Len(suffix) + 1, Len(text)) = suffix

\* C29: with a budget of max_chars >= 1 characters as estimate_max_chars
\* gives it, truncate_text returns a text of at most max_chars characters
\* unchanged, and otherwise a text that ends with the suffix and has at most
\* max_chars characters.
C29_TruncatedWithinBudget ==
    call.fn = "truncate_text" =>
        /\ call.ret.max_chars >= 1
        /\ IF Len(call.args.text) <= call.ret.max_chars
           THEN call.ret.text = call.args.text
           ELSE /\ EndsWith(call.ret.text, DefaultSuffix)
                /\ Len(call.ret.text) <= call.ret.max_chars

\* C29 for budgets of at least the length of the suffix
C29_TruncatedWithinWideBudget ==
    (call.fn = "truncate_text" /\ call.ret.max_chars >= Len(DefaultSuffix)) =>
        /\ IF Len(call.args.text) <= call.ret.max_chars
           THEN call.ret.text = call.args.text
           ELSE /\ EndsWith(call.ret.text, DefaultSuffix)
                /\ Len(call.ret.text) <= call.ret.max_chars

\* The geometry of a split layout: s and e are the positions of a
\* rectangle's start and end along the split axis, cs and ce across it, and
\* along and across the sizes of the display in the two directions
SplitGeometry(layout, padding, gap, s, e, cs, ce, along, across) ==
    LET first == layout.slots[1].rect
        second == layout.slots[2].rect
    IN  /\ ~RLt(layout.ratio, Ratio(2, 10))
        /\ ~RLt(Ratio(8, 10), layout.ratio)
        /\ layout.ratio.class = "finite"
        /\ Len(layout.slots) = 2
        /\ second[s] - first[e] = gap
        /\ first[e] <= second[s]
        /\ first[s] = padding
        /\ second[e] = along - padding
        /\ \A rect \in {first, second} :
             /\ rect[cs] = padding
             /\ rect[ce] = across - padding

PositiveExtent(layout) ==
    \A i \in 1..Len(layout.slots) :
        /\ layout.slots[i].rect[1] < layout.slots[i].rect[3]
        /\ layout.slots[i].rect[2] < layout.slots[i].rect[4]

SplitFits == 2 * call.args.padding + call.args.gap < DISPLAY_WIDTH

\* C30: for every requested ratio, and padding and gap with
\* 2 * padding + gap < 240, a split layout has its ratio in [0.2, 0.8] and
\* exactly two slots that do not overlap, lie gap pixels apart along the
\* split axis, start at padding and end at 240 - padding on both axes, and
\* each have positive width and height.
C30_SplitSlots ==
    /\ (call.fn = "SplitHorizontal" /\ SplitFits) =>
          /\ SplitGeometry(call.ret, call.args.padding, call.args.gap, 1, 3, 2, 4,
                        DISPLAY_WIDTH, DISPLAY_HEIGHT)
          /\ PositiveExtent(call.ret)
    /\ (call.fn = "SplitVertical" /\ SplitFits) =>
          /\ SplitGeometry(call.ret, call.args.padding, call.args.gap, 2, 4, 1, 3,
                        DISPLAY_HEIGHT, DISPLAY_WIDTH)
          /\ PositiveExtent(call.ret)

\* C30 without the positive extent, and the positive extent when at least
\* five pixels are left to share
C30_SplitSlotsWithRoom ==
    /\ (call.fn = "SplitHorizontal" /\ SplitFits) =>
          SplitGeometry(call.ret, call.args.padding, call.args.gap, 1, 3, 2, 4,
                        DISPLAY_WIDTH, DISPLAY_HEIGHT)
    /\ (call.fn = "SplitVertical" /\ SplitFits) =>
          SplitGeometry(call.ret, call.args.padding, call.args.gap, 2, 4, 1, 3,
                        DISPLAY_HEIGHT, DISPLAY_WIDTH)
    /\ (/\ call.fn \in {"SplitHorizontal", "SplitVertical"}
        /\ 2 * call.args.padding + call.args.gap + 5 <= DISPLAY_WIDTH) =>
          PositiveExtent(call.ret)

====
